---- MODULE Spec2Model ----
(***************************************************************************)
(* Model of the Terminal runtime of node-terminal-api                      *)
(* (src/core/Terminal.ts, kept in src/unnamed/part_003 lines 208-542):     *)
(* the run() lifecycle, exit(), the raw-mode switch and the keypress       *)
(* dispatcher.  The hosted Application is the environment: its hooks are   *)
(* asynchronous, may suspend, return or raise, and may call the public     *)
(* methods of the Terminal from hooks, timers and keypress listeners.      *)
(* Strings are sequences of tokens; an escape code is one token.           *)
(***************************************************************************)
EXTENDS Integers, Sequences, FiniteSets, TLC

\* ------------------------------------------------------------------ bounds
MaxLines == 2        \* lines forwarded to onInput per behaviour
MaxKeys == 1         \* keypress events per behaviour
MaxListeners == 2    \* length of keypressListeners
MaxWaiters == 1      \* readKey() calls that register a waiter
NumCallbacks == 1    \* distinct callbacks the application registers
\* bounds of the behaviours that use the Terminal without run()
KeyKeys == 1         \* keypress events
KeyListeners == 3    \* length of keypressListeners
KeyWaiters == 3      \* readKey() calls that register a waiter
KeyCallbacks == 2    \* distinct callbacks the application registers
\* bounds of the behaviours that run the AppSelector
NumApps == 2         \* registered applications
SelLines == 3        \* lines submitted per behaviour
\* bound of the behaviours that call display() on its own
MaxWrites == 1       \* display() calls per behaviour
\* bounds of the behaviours that run a game
GameKeys == 3        \* keypress events per behaviour
MaxTicks == 2        \* firings of the game's timers per behaviour
\* bounds of the behaviours that follow the snake cell by cell
SnakeTicks == 8      \* firings of SnakeGame's timer per behaviour
SnakeKeys == 4       \* keys handled by SnakeGame's listener per behaviour
\* bounds of the behaviours that follow DoomArena cell by cell
DoomTicks == 9       \* firings of DoomArena's timer while playing
DoomKeys == 3        \* keys handled by DoomArena's listener per behaviour
\* bounds of the behaviours that follow PixelQuest cell by cell
PixelTicks == 6      \* firings of PixelQuest's timer per behaviour
PixelKeys == 5       \* keys handled by PixelQuest's listener per behaviour

\* ------------------------------------------------------- display helpers
ANSI_COLORS ==
  [red |-> "ESC[31m", green |-> "ESC[32m", blue |-> "ESC[34m",
   yellow |-> "ESC[33m", reset |-> "ESC[0m", bold |-> "ESC[1m"]

ANSI_CONTROL == [clearScreen |-> <<"ESC[2J", "ESC[0f">>]

Colors == {"red", "green", "blue", "yellow", "reset"}

colorize(text, color) == <<ANSI_COLORS[color]>> \o text \o <<ANSI_COLORS.reset>>

bold(text) == <<ANSI_COLORS.bold>> \o text \o <<ANSI_COLORS.reset>>

\* variant: display() that makes the text bold before colouring it
display_boldInside(content, options) ==
  LET o1 == IF options.bold THEN bold(content) ELSE content
      o2 == IF options.color # "none" THEN colorize(o1, options.color)
            ELSE o1
  IN  IF options.newLine THEN o2 \o <<"\n">> ELSE o2

\* options: color is a member of Colors or "none" (option absent)
display(content, options) ==
  LET o1 == IF options.color # "none" THEN colorize(content, options.color)
            ELSE content
      o2 == IF options.bold THEN bold(o1) ELSE o1
  IN  IF options.newLine THEN o2 \o <<"\n">> ELSE o2

NoOptions == [color |-> "none", bold |-> FALSE, newLine |-> TRUE]

Banner ==
  display(<<"Loading ", "name", " v", "version", "...">>,
          [color |-> "green", bold |-> TRUE, newLine |-> TRUE])

Separator == display(<<"-------------------", "\n">>, NoOptions)

StartFailedMsg ==
  display(<<"Failed to start application: ", "boom">>,
          [color |-> "red", bold |-> FALSE, newLine |-> TRUE])

InputErrorMsg ==
  display(<<"Error: ", "boom">>,
          [color |-> "red", bold |-> FALSE, newLine |-> TRUE])

PromptText == <<"> ">>

\* --------------------------------------------------------- line trimming
WS == {" ", "\t"}

RECURSIVE TrimLeft(_)
TrimLeft(s) ==
  IF s = <<>> THEN s
  ELSE IF Head(s) \in WS THEN TrimLeft(Tail(s)) ELSE s

RECURSIVE TrimRight(_)
TrimRight(s) ==
  IF s = <<>> THEN s
  ELSE IF s[Len(s)] \in WS THEN TrimRight(SubSeq(s, 1, Len(s) - 1)) ELSE s

trim(s) == TrimRight(TrimLeft(s))

RawLines == {<<"a">>, <<" ", "a", "\t">>}

\* ------------------------------------------------------------------ state
VARIABLES
  isRunning,          \* Terminal.isRunning
  isRawMode,          \* Terminal.isRawMode
  keypressListeners,  \* Terminal.keypressListeners, sequence of listener ids
  isTTY,              \* process.stdin.isTTY
  stdinRaw,           \* stream mode last set by process.stdin.setRawMode
  osHandlers,         \* number of "keypress" handlers on process.stdin
  rlClosed,           \* rl.close() has been called
  lineListeners,      \* number of "line" handlers on rl
  out,                \* strings written to the output, in order
  runPc,              \* position of run()
  pollTimer,          \* the checkExit interval is active
  inFlight,           \* onInput invocations started and not settled
  lastInput,          \* argument of the latest onInput invocation
  linesSeen,          \* lines forwarded to onInput so far
  startFailed,        \* onStart raised
  exitHookCalls,      \* invocations of app.onExit
  exitHookRaised,     \* onExit raised
  exitCalled,         \* exit() has been called since run() began
  runOnExit,          \* isRunning when onExit was invoked
  rawOnObserve,       \* isRawMode when the exit poll saw isRunning = false
  nextWaiter,         \* readKey waiters created so far
  resolved,           \* waiter id -> number of the key event it resolved with
  keyCount,           \* keypress events so far
  dispatch,           \* handleKeypress in progress: [on, idx, todo]
  exited,             \* the latest step was a call of exit()
  touched,            \* the latest step called process.stdin.setRawMode
  readOutcome,        \* how the readKey() call of the latest step ended
  rawRefused,         \* an enableRawMode() call left raw mode disabled
  staleCount,         \* leading listeners registered before the last disable
  snapshot,           \* keypressListeners when the current event arrived
  delivered,          \* listeners invoked for the current event, in order
  regAt,              \* waiter -> key count and dispatch state at its call
  isInSubApp,         \* AppSelector.isInSubApp
  subApp,             \* AppSelector.subApp: index into apps, 0 for null
  isWaitingForChoice, \* AppSelector.isWaitingForChoice
  selPc,              \* position of the selector's onStart / onExit
  childPc,            \* app -> state of its onStart call
  childStarts,        \* app -> invocations of its onStart
  childExits,         \* app -> invocations of its onExit
  childInput,         \* latest onInput call forwarded to a child
  shown,              \* display() calls made so far: [content, options]
  game,               \* the game given to run(), "none" before
  gamePc,             \* position of the game's onStart / onExit
  gameState,          \* DoomArena.gameState, PixelQuest.gameState
  gameOver,           \* SnakeGame.gameOver, FlappyBird.gameOver
  isPaused,           \* SnakeGame.isPaused, FlappyBird.isPaused
  gameInterval,       \* the game's gameInterval is set (timer active)
  pipeSpawnTimer,     \* FlappyBird.pipeSpawnTimer is set (timer active)
  score,              \* the game's score
  world,              \* updateGame() calls since the game was initialized
  control,            \* latest key the game applied to its player
  pipes,              \* FlappyBird: pipes spawned since initialization
  selectedMenuItem,   \* PixelQuest.selectedMenuItem
  pendingExit,        \* setTimeout(() => terminal.exit(), 50) pending
  keyName,            \* key.name of the keypress event being dispatched
  ticks,              \* firings of the game's timers so far
  stepped,            \* the latest step ran an update or a render
  snake,              \* SnakeGame.snake: cells <<x, y>>, head first
  food,               \* SnakeGame.food
  direction,          \* SnakeGame.direction
  nextDirection,      \* SnakeGame.nextDirection
  timers,             \* interval timers started for gameInterval, not cleared
  doom,               \* DoomArena: player, enemies, the frame last rendered
  pixel               \* PixelQuest: player, enemies, level

vars ==
  <<isRunning, isRawMode, keypressListeners, isTTY, stdinRaw, osHandlers,
    rlClosed, lineListeners, out, runPc, pollTimer, inFlight, lastInput,
    linesSeen, startFailed, exitHookCalls, exitHookRaised, exitCalled,
    runOnExit, rawOnObserve, nextWaiter, resolved, keyCount, dispatch,
    exited, touched, readOutcome, rawRefused, staleCount, snapshot,
    delivered, regAt, isInSubApp, subApp, isWaitingForChoice, selPc,
    childPc, childStarts, childExits, childInput, shown, game, gamePc,
    gameState, gameOver, isPaused, gameInterval, pipeSpawnTimer, score,
    world, control, pipes, selectedMenuItem, pendingExit, keyName, ticks,
    stepped, snake, food, direction, nextDirection, timers, doom, pixel>>

termVars == <<isRunning, isRawMode, keypressListeners, stdinRaw, osHandlers>>

runVars ==
  <<rlClosed, lineListeners, out, runPc, pollTimer, inFlight, lastInput,
    linesSeen, startFailed, exitHookCalls, exitHookRaised, runOnExit,
    rawOnObserve>>

keyVars == <<nextWaiter, resolved>>

\* history of the keypress dispatcher, recorded by Track
histVars ==
  <<readOutcome, rawRefused, staleCount, snapshot, delivered, regAt>>

\* the AppSelector and the applications registered with it
selVars == <<isInSubApp, subApp, isWaitingForChoice, selPc>>
childVars == <<childPc, childStarts, childExits, childInput>>
appVars == <<selVars, childVars>>

\* a game: its fields, its timers and the key it is handling
gameVars ==
  <<game, gamePc, gameState, gameOver, isPaused, gameInterval, timers,
    pipeSpawnTimer, score, world, control, pipes, selectedMenuItem,
    pendingExit, keyName, ticks, stepped>>

\* the boards of the games, cell by cell
snakeVars == <<snake, food, direction, nextDirection>>
boardVars == <<snakeVars, doom, pixel>>

\* a behaviour either goes through run() or uses the Terminal on its own
Standalone == runPc = "off"
KeyCap ==
  IF Standalone THEN KeyKeys ELSE IF game # "none" THEN GameKeys ELSE MaxKeys
ListenerCap == IF Standalone THEN KeyListeners ELSE MaxListeners
WaiterCap == IF Standalone THEN KeyWaiters ELSE MaxWaiters

CallbackCap == IF Standalone THEN KeyCallbacks ELSE NumCallbacks
Callbacks == {<<"cb", i>> : i \in 1 .. CallbackCap}
Waiters == 1 .. WaiterCap
WaiterId(n) == <<"rk", n>>
IsWaiter(l) == l[1] = "rk"

Idle == [on |-> FALSE, idx |-> 0, todo |-> 0]

Apps == 1 .. NumApps
NoInput == [to |-> 0, input |-> <<>>, count |-> 0]

\* new AppSelector(apps), the applications not started
AppsInit ==
  /\ isInSubApp = FALSE
  /\ subApp = 0
  /\ isWaitingForChoice = FALSE
  /\ selPc = "new"
  /\ childPc = [a \in Apps |-> "new"]
  /\ childStarts = [a \in Apps |-> 0]
  /\ childExits = [a \in Apps |-> 0]
  /\ childInput = NoInput

\* the fields of a DoomArena object as constructed; screen: nothing drawn
DoomNew ==
  [player |-> [x |-> 20, y |-> 10, health |-> 100], enemies |-> <<>>,
   screen |-> "none"]

\* the fields of a PixelQuest object as constructed; y and velocityY are
\* kept in halves of a cell (the code adds 0.5 per tick), an enemy's x and
\* velocityX in tenths
PixelNew ==
  [player |-> [x |-> 5, y |-> 20, velocityY |-> 0, health |-> 100,
               isJumping |-> FALSE],
   enemies |-> <<>>, level |-> 1]

\* no display() call yet; the fields of a game object as constructed
GameOff ==
  /\ shown = <<>>
  /\ game = "none"
  /\ gamePc = "new"
  /\ gameState = "Menu"
  /\ gameOver = FALSE
  /\ isPaused = FALSE
  /\ gameInterval = FALSE
  /\ timers = 0
  /\ pipeSpawnTimer = FALSE
  /\ score = 0
  /\ world = 0
  /\ control = "none"
  /\ pipes = 0
  /\ selectedMenuItem = 0
  /\ pendingExit = 0
  /\ keyName = "none"
  /\ ticks = 0
  /\ stepped = FALSE
  /\ snake = <<>>
  /\ food = <<0, 0>>
  /\ direction = "RIGHT"
  /\ nextDirection = "RIGHT"
  /\ doom = DoomNew
  /\ pixel = PixelNew

Init ==
  /\ AppsInit
  /\ GameOff
  /\ isRunning = FALSE
  /\ isRawMode = FALSE
  /\ keypressListeners = <<>>
  /\ isTTY \in BOOLEAN
  /\ stdinRaw = FALSE
  /\ osHandlers = 0
  /\ rlClosed = FALSE
  /\ lineListeners = 0
  /\ out = <<>>
  /\ runPc = "idle"
  /\ pollTimer = FALSE
  /\ inFlight = 0
  /\ lastInput = <<"none">>
  /\ linesSeen = 0
  /\ startFailed = FALSE
  /\ exitHookCalls = 0
  /\ exitHookRaised = FALSE
  /\ exitCalled = FALSE
  /\ runOnExit = "none"
  /\ rawOnObserve = "none"
  /\ nextWaiter = 0
  /\ resolved = [w \in Waiters |-> 0]
  /\ keyCount = 0
  /\ dispatch = Idle
  /\ exited = FALSE
  /\ touched = FALSE
  /\ readOutcome = "none"
  /\ rawRefused = FALSE
  /\ staleCount = 0
  /\ snapshot = <<>>
  /\ delivered = <<>>
  /\ regAt = [w \in Waiters |-> [at |-> 0, inDispatch |-> FALSE]]

\* ------------------------------------------------- Terminal: raw mode, exit
\* variant: enableRawMode() without the early return
enableRawMode_noGuard ==
  IF isTTY
  THEN /\ stdinRaw' = TRUE
       /\ touched' = TRUE
       /\ osHandlers' = osHandlers + 1
       /\ isRawMode' = TRUE
  ELSE /\ touched' = FALSE
       /\ UNCHANGED <<isRawMode, stdinRaw, osHandlers>>

enableRawMode_anyStream ==
  IF isRawMode
  THEN /\ touched' = FALSE
       /\ UNCHANGED <<isRawMode, stdinRaw, osHandlers>>
  ELSE /\ stdinRaw' = TRUE
       /\ touched' = TRUE
       /\ osHandlers' = osHandlers + 1
       /\ isRawMode' = TRUE

\* enableRawMode(), on the fields it touches
enableRawMode ==
  IF isRawMode
  THEN /\ touched' = FALSE
       /\ UNCHANGED <<isRawMode, stdinRaw, osHandlers>>
  ELSE IF isTTY
       THEN /\ stdinRaw' = TRUE
            /\ touched' = TRUE
            /\ osHandlers' = osHandlers + 1
            /\ isRawMode' = TRUE
       ELSE /\ touched' = FALSE
            /\ UNCHANGED <<isRawMode, stdinRaw, osHandlers>>

\* variant: disableRawMode() that leaves the keypress handler on stdin
disableRawMode_keepsHandler ==
  IF ~isRawMode
  THEN /\ touched' = FALSE
       /\ UNCHANGED <<isRawMode, stdinRaw, osHandlers>>
  ELSE IF isTTY
       THEN /\ stdinRaw' = FALSE
            /\ touched' = TRUE
            /\ osHandlers' = osHandlers
            /\ isRawMode' = FALSE
       ELSE /\ touched' = FALSE
            /\ UNCHANGED <<isRawMode, stdinRaw, osHandlers>>

\* disableRawMode(): keypressListeners is not touched
disableRawMode ==
  IF ~isRawMode
  THEN /\ touched' = FALSE
       /\ UNCHANGED <<isRawMode, stdinRaw, osHandlers>>
  ELSE IF isTTY
       THEN /\ stdinRaw' = FALSE
            /\ touched' = TRUE
            /\ osHandlers' = 0
            /\ isRawMode' = FALSE
       ELSE /\ touched' = FALSE
            /\ UNCHANGED <<isRawMode, stdinRaw, osHandlers>>

\* variant: exit() that leaves the running flag alone
exit_keepsRunning ==
  /\ isRunning' = isRunning
  /\ IF isRawMode THEN disableRawMode
     ELSE /\ touched' = FALSE
          /\ UNCHANGED <<isRawMode, stdinRaw, osHandlers>>

\* variant: exit() that leaves raw mode as it is
exit_noDisable ==
  /\ isRunning' = FALSE
  /\ touched' = FALSE
  /\ UNCHANGED <<isRawMode, stdinRaw, osHandlers>>

\* exit()
exit ==
  /\ isRunning' = FALSE
  /\ IF isRawMode THEN disableRawMode
     ELSE /\ touched' = FALSE
          /\ UNCHANGED <<isRawMode, stdinRaw, osHandlers>>

InRun == runPc \in {"onStart", "polling", "onExit"}

NoteExit == exitCalled' = (exitCalled \/ InRun)

\* ------------------------------------------------ Terminal: listener list
IndexOf(list, l) ==
  IF \E i \in 1 .. Len(list) : list[i] = l
  THEN CHOOSE i \in 1 .. Len(list) :
         list[i] = l /\ \A j \in 1 .. (i - 1) : list[j] # l
  ELSE 0

\* list.splice(i, 1)
Splice(list, i) == SubSeq(list, 1, i - 1) \o SubSeq(list, i + 1, Len(list))

\* the function returned by onKeypress(cb), and the self-removal of a waiter
RemoveListener(list, l) ==
  LET index == IndexOf(list, l)
  IN  IF index > 0 THEN Splice(list, index) ELSE list

onKeypress(cb) ==
  /\ Len(keypressListeners) < ListenerCap
  /\ keypressListeners' = Append(keypressListeners, cb)
  /\ UNCHANGED keyVars

\* the function returned by onKeypress(cb)
unsubscribe(cb) ==
  /\ keypressListeners' = RemoveListener(keypressListeners, cb)
  /\ UNCHANGED keyVars

\* readKey(): rejects unless raw mode is enabled
readKey_noCheck ==
  /\ nextWaiter < WaiterCap
  /\ Len(keypressListeners) < ListenerCap
  /\ nextWaiter' = nextWaiter + 1
  /\ keypressListeners' = Append(keypressListeners, WaiterId(nextWaiter + 1))
  /\ UNCHANGED resolved

readKey ==
  IF ~isRawMode
  THEN UNCHANGED <<keypressListeners, nextWaiter, resolved>>
  ELSE /\ nextWaiter < WaiterCap
       /\ Len(keypressListeners) < ListenerCap
       /\ nextWaiter' = nextWaiter + 1
       /\ keypressListeners' =
            Append(keypressListeners, WaiterId(nextWaiter + 1))
       /\ UNCHANGED resolved

\* ------------------------------------ calls made by the application's code
\* (from a hook that is in progress, or from a timer of the application)
Exit ==
  /\ ~dispatch.on
  /\ exit
  /\ NoteExit
  /\ UNCHANGED <<keypressListeners, isTTY, runVars, keyVars, keyCount,
                 dispatch>>

EnableRawMode ==
  /\ ~dispatch.on
  /\ enableRawMode
  /\ UNCHANGED <<isRunning, keypressListeners, isTTY, runVars, exitCalled,
                 keyVars, keyCount, dispatch>>

DisableRawMode ==
  /\ ~dispatch.on
  /\ disableRawMode
  /\ UNCHANGED <<isRunning, keypressListeners, isTTY, runVars, exitCalled,
                 keyVars, keyCount, dispatch>>

OnKeypress(cb) ==
  /\ ~dispatch.on
  /\ onKeypress(cb)
  /\ UNCHANGED <<isRunning, isRawMode, stdinRaw, osHandlers, isTTY, runVars,
                 exitCalled, keyCount, dispatch>>

Unsubscribe(cb) ==
  /\ ~dispatch.on
  /\ unsubscribe(cb)
  /\ UNCHANGED <<isRunning, isRawMode, stdinRaw, osHandlers, isTTY, runVars,
                 exitCalled, keyCount, dispatch>>

ReadKey ==
  /\ ~dispatch.on
  /\ readKey
  /\ UNCHANGED <<isRunning, isRawMode, stdinRaw, osHandlers, isTTY, runVars,
                 exitCalled, keyCount, dispatch>>

\* ------------------------------------------------------ keypress dispatch
\* a "keypress" event of process.stdin: every registered handler runs
\* handleKeypress, which walks keypressListeners by index
Keypress ==
  /\ ~dispatch.on
  /\ osHandlers > 0
  /\ keyCount < KeyCap
  /\ keyCount' = keyCount + 1
  /\ dispatch' = [on |-> TRUE, idx |-> 1, todo |-> osHandlers]
  /\ UNCHANGED <<termVars, isTTY, runVars, exitCalled, keyVars>>

AtListener ==
  /\ dispatch.on
  /\ dispatch.idx <= Len(keypressListeners)

Current == keypressListeners[dispatch.idx]

Advance == dispatch' = [dispatch EXCEPT !.idx = @ + 1]

\* a callback registered with onKeypress that does nothing to the Terminal
ListenerNoop ==
  /\ AtListener
  /\ ~IsWaiter(Current)
  /\ Advance
  /\ UNCHANGED <<termVars, isTTY, runVars, exitCalled, keyVars, keyCount>>

\* a callback that calls terminal.exit()
ListenerExit ==
  /\ AtListener
  /\ ~IsWaiter(Current)
  /\ exit
  /\ NoteExit
  /\ Advance
  /\ UNCHANGED <<keypressListeners, isTTY, runVars, keyVars, keyCount>>

\* a callback that calls an unsubscribe function
ListenerUnsubscribe(cb) ==
  /\ AtListener
  /\ ~IsWaiter(Current)
  /\ unsubscribe(cb)
  /\ Advance
  /\ UNCHANGED <<isRunning, isRawMode, stdinRaw, osHandlers, isTTY, runVars,
                 exitCalled, keyCount>>

\* a callback that calls terminal.readKey()
ListenerReadKey ==
  /\ AtListener
  /\ ~IsWaiter(Current)
  /\ readKey
  /\ Advance
  /\ UNCHANGED <<isRunning, isRawMode, stdinRaw, osHandlers, isTTY, runVars,
                 exitCalled, keyCount>>

\* the one-shot handler of readKey(): removes itself, resolves with the key
WaiterFire ==
  /\ AtListener
  /\ IsWaiter(Current)
  /\ keypressListeners' = RemoveListener(keypressListeners, Current)
  /\ resolved' = [resolved EXCEPT ![Current[2]] = keyCount]
  /\ Advance
  /\ UNCHANGED <<isRunning, isRawMode, stdinRaw, osHandlers, isTTY, runVars,
                 exitCalled, nextWaiter, keyCount>>

\* the walk is past the end of the list: next handler, or done
DispatchEnd ==
  /\ dispatch.on
  /\ dispatch.idx > Len(keypressListeners)
  /\ dispatch' = IF dispatch.todo > 1
                 THEN [on |-> TRUE, idx |-> 1, todo |-> dispatch.todo - 1]
                 ELSE Idle
  /\ UNCHANGED <<termVars, isTTY, runVars, exitCalled, keyVars, keyCount>>

\* ------------------------------------------------------------------ run()
Running(b) == IF b THEN "running" ELSE "stopped"
Mode(b) == IF b THEN "raw" ELSE "cooked"

\* run(app) up to the call of app.onStart
Run ==
  /\ ~dispatch.on
  /\ runPc = "idle"
  /\ isRunning' = TRUE
  /\ out' = out \o <<ANSI_CONTROL.clearScreen, Banner, Separator>>
  /\ runPc' = "onStart"
  /\ UNCHANGED <<isRawMode, keypressListeners, isTTY, stdinRaw, osHandlers,
                 rlClosed, lineListeners, pollTimer, inFlight, lastInput,
                 linesSeen, startFailed, exitHookCalls, exitHookRaised,
                 exitCalled, runOnExit, rawOnObserve, keyVars, keyCount,
                 dispatch>>

\* onStart returned: prompt and line handler if still running, then the
\* exit poll is started
OnStartReturn ==
  /\ ~dispatch.on
  /\ runPc = "onStart"
  /\ IF isRunning
     THEN /\ out' = Append(out, PromptText)
          /\ lineListeners' = lineListeners + 1
          /\ UNCHANGED rawOnObserve
     ELSE /\ rawOnObserve' = IF rawOnObserve = "raw" THEN "raw"
                             ELSE Mode(isRawMode)
          /\ UNCHANGED <<out, lineListeners>>
  /\ pollTimer' = TRUE
  /\ runPc' = "polling"
  /\ UNCHANGED <<termVars, isTTY, rlClosed, inFlight, lastInput, linesSeen,
                 startFailed, exitHookCalls, exitHookRaised, exitCalled,
                 runOnExit, keyVars, keyCount, dispatch>>

\* the finally block up to the call of app.onExit
CallOnExit ==
  /\ exitHookCalls' = exitHookCalls + 1
  /\ runOnExit' = Running(isRunning)
  /\ runPc' = "onExit"

\* variant: the catch block ends the run without the finally block
OnStartThrow_noFinally ==
  /\ ~dispatch.on
  /\ runPc = "onStart"
  /\ startFailed' = TRUE
  /\ out' = Append(out, StartFailedMsg)
  /\ rlClosed' = TRUE
  /\ runPc' = "resolved"
  /\ UNCHANGED <<termVars, isTTY, lineListeners, pollTimer, inFlight,
                 lastInput, linesSeen, exitHookCalls, exitHookRaised,
                 exitCalled, runOnExit, rawOnObserve, keyVars, keyCount,
                 dispatch>>

\* variant: a start failure falls through to the listening phase
OnStartThrow_listens ==
  /\ ~dispatch.on
  /\ runPc = "onStart"
  /\ startFailed' = TRUE
  /\ out' = out \o <<StartFailedMsg, PromptText>>
  /\ lineListeners' = lineListeners + 1
  /\ CallOnExit
  /\ UNCHANGED <<termVars, isTTY, rlClosed, pollTimer, inFlight, lastInput,
                 linesSeen, exitHookRaised, exitCalled, rawOnObserve, keyVars,
                 keyCount, dispatch>>

\* onStart raised: catch block, then the finally block
OnStartThrow ==
  /\ ~dispatch.on
  /\ runPc = "onStart"
  /\ startFailed' = TRUE
  /\ out' = Append(out, StartFailedMsg)
  /\ CallOnExit
  /\ UNCHANGED <<termVars, isTTY, rlClosed, lineListeners, pollTimer,
                 inFlight, lastInput, linesSeen, exitHookRaised, exitCalled,
                 rawOnObserve, keyVars, keyCount, dispatch>>

\* one firing of the checkExit interval (every 100 ms)
PollTick ==
  /\ ~dispatch.on
  /\ runPc = "polling"
  /\ pollTimer
  /\ IF ~isRunning
     THEN /\ pollTimer' = FALSE
          /\ rawOnObserve' = IF rawOnObserve = "raw" THEN "raw"
                             ELSE Mode(isRawMode)
          /\ CallOnExit
     ELSE UNCHANGED <<pollTimer, rawOnObserve, exitHookCalls, runOnExit,
                      runPc>>
  /\ UNCHANGED <<termVars, isTTY, rlClosed, lineListeners, out, inFlight,
                 lastInput, linesSeen, startFailed, exitHookRaised, exitCalled,
                 keyVars, keyCount, dispatch>>

\* onExit returned: rl.close(), run resolves
OnExitReturn ==
  /\ ~dispatch.on
  /\ runPc = "onExit"
  /\ rlClosed' = TRUE
  /\ runPc' = "resolved"
  /\ UNCHANGED <<termVars, isTTY, lineListeners, out, pollTimer, inFlight,
                 lastInput, linesSeen, startFailed, exitHookCalls,
                 exitHookRaised, exitCalled, runOnExit, rawOnObserve, keyVars,
                 keyCount, dispatch>>

\* onExit raised: the finally block is left, run rejects
OnExitThrow ==
  /\ ~dispatch.on
  /\ runPc = "onExit"
  /\ exitHookRaised' = TRUE
  /\ runPc' = "rejected"
  /\ UNCHANGED <<termVars, isTTY, rlClosed, lineListeners, out, pollTimer,
                 inFlight, lastInput, linesSeen, startFailed, exitHookCalls,
                 exitCalled, runOnExit, rawOnObserve, keyVars, keyCount,
                 dispatch>>

\* ------------------------------------------------------------ line input
\* variant: the line handler without the isRunning check
SubmitLine_noGuard(raw) ==
  /\ ~dispatch.on
  /\ ~rlClosed
  /\ linesSeen < MaxLines
  /\ IF lineListeners > 0
     THEN /\ inFlight' = inFlight + lineListeners
          /\ lastInput' = trim(raw)
          /\ linesSeen' = linesSeen + 1
     ELSE UNCHANGED <<inFlight, lastInput, linesSeen>>
  /\ UNCHANGED <<termVars, isTTY, rlClosed, lineListeners, out, runPc,
                 pollTimer, startFailed, exitHookCalls, exitHookRaised,
                 exitCalled, runOnExit, rawOnObserve, keyVars, keyCount,
                 dispatch>>

\* variant: a line is dropped while an onInput call is in flight
SubmitLine_serialized(raw) ==
  /\ ~dispatch.on
  /\ ~rlClosed
  /\ linesSeen < MaxLines
  /\ IF lineListeners > 0 /\ isRunning /\ inFlight = 0
     THEN /\ inFlight' = inFlight + lineListeners
          /\ lastInput' = trim(raw)
          /\ linesSeen' = linesSeen + 1
     ELSE UNCHANGED <<inFlight, lastInput, linesSeen>>
  /\ UNCHANGED <<termVars, isTTY, rlClosed, lineListeners, out, runPc,
                 pollTimer, startFailed, exitHookCalls, exitHookRaised,
                 exitCalled, runOnExit, rawOnObserve, keyVars, keyCount,
                 dispatch>>

\* a "line" event of rl: every registered handler starts an onInput call
\* unless isRunning is false
SubmitLine(raw) ==
  /\ ~dispatch.on
  /\ ~rlClosed
  /\ linesSeen < MaxLines
  /\ IF lineListeners > 0 /\ isRunning
     THEN /\ inFlight' = inFlight + lineListeners
          /\ lastInput' = trim(raw)
          /\ linesSeen' = linesSeen + 1
     ELSE UNCHANGED <<inFlight, lastInput, linesSeen>>
  /\ UNCHANGED <<termVars, isTTY, rlClosed, lineListeners, out, runPc,
                 pollTimer, startFailed, exitHookCalls, exitHookRaised,
                 exitCalled, runOnExit, rawOnObserve, keyVars, keyCount,
                 dispatch>>

\* an onInput call returned
OnInputReturn ==
  /\ ~dispatch.on
  /\ inFlight > 0
  /\ inFlight' = inFlight - 1
  /\ out' = IF isRunning THEN Append(out, PromptText) ELSE out
  /\ UNCHANGED <<termVars, isTTY, rlClosed, lineListeners, runPc, pollTimer,
                 lastInput, linesSeen, startFailed, exitHookCalls,
                 exitHookRaised, exitCalled, runOnExit, rawOnObserve, keyVars,
                 keyCount, dispatch>>

\* variant: an error of onInput ends the run
OnInputThrow_stops ==
  /\ ~dispatch.on
  /\ inFlight > 0
  /\ inFlight' = inFlight - 1
  /\ out' = out \o <<InputErrorMsg, PromptText>>
  /\ isRunning' = FALSE
  /\ UNCHANGED <<isRawMode, keypressListeners, stdinRaw, osHandlers, isTTY,
                 rlClosed, lineListeners, runPc, pollTimer, lastInput,
                 linesSeen, startFailed, exitHookCalls, exitHookRaised,
                 exitCalled, runOnExit, rawOnObserve, keyVars, keyCount,
                 dispatch>>

\* an onInput call raised
OnInputThrow ==
  /\ ~dispatch.on
  /\ inFlight > 0
  /\ inFlight' = inFlight - 1
  /\ out' = out \o <<InputErrorMsg, PromptText>>
  /\ UNCHANGED <<termVars, isTTY, rlClosed, lineListeners, runPc, pollTimer,
                 lastInput, linesSeen, startFailed, exitHookCalls,
                 exitHookRaised, exitCalled, runOnExit, rawOnObserve, keyVars,
                 keyCount, dispatch>>

\* ---------------------------------------------------------- specification
\* a step that calls none of exit, enableRawMode, disableRawMode
Plain == exited' = FALSE /\ touched' = FALSE

\* the history is not recorded in behaviours that go through run()
Frozen == UNCHANGED histVars

\* no game is running and display() is not called on its own
NoGame == UNCHANGED <<shown, gameVars, boardVars>>

\* the application is neither the AppSelector nor a game
NoApps == UNCHANGED appVars /\ NoGame

Next ==
  \/ Run /\ Plain /\ Frozen /\ NoApps
  \/ OnStartReturn /\ Plain /\ Frozen /\ NoApps
  \/ OnStartThrow /\ Plain /\ Frozen /\ NoApps
  \/ PollTick /\ Plain /\ Frozen /\ NoApps
  \/ OnExitReturn /\ Plain /\ Frozen /\ NoApps
  \/ OnExitThrow /\ Plain /\ Frozen /\ NoApps
  \/ \E raw \in RawLines : SubmitLine(raw) /\ Plain /\ Frozen /\ NoApps
  \/ OnInputReturn /\ Plain /\ Frozen /\ NoApps
  \/ OnInputThrow /\ Plain /\ Frozen /\ NoApps
  \/ Exit /\ exited' = TRUE /\ Frozen /\ NoApps
  \/ EnableRawMode /\ exited' = FALSE /\ Frozen /\ NoApps
  \/ DisableRawMode /\ exited' = FALSE /\ Frozen /\ NoApps
  \/ \E cb \in Callbacks : OnKeypress(cb) /\ Plain /\ Frozen /\ NoApps
  \/ \E cb \in Callbacks : Unsubscribe(cb) /\ Plain /\ Frozen /\ NoApps
  \/ ReadKey /\ Plain /\ Frozen /\ NoApps
  \/ Keypress /\ Plain /\ Frozen /\ NoApps
  \/ ListenerNoop /\ Plain /\ Frozen /\ NoApps
  \/ ListenerExit /\ exited' = TRUE /\ Frozen /\ NoApps
  \/ \E cb \in Callbacks : ListenerUnsubscribe(cb) /\ Plain /\ Frozen /\ NoApps
  \/ ListenerReadKey /\ Plain /\ Frozen /\ NoApps
  \/ WaiterFire /\ Plain /\ Frozen /\ NoApps
  \/ DispatchEnd /\ Plain /\ Frozen /\ NoApps

Spec == Init /\ [][Next]_vars

\* The event loop runs every callback that is ready: a firing of the
\* checkExit interval, the continuation of a hook that settled, the next
\* listener of a dispatch in progress.  The hooks onStart and onExit settle.
DispatchStep ==
  \/ ListenerNoop /\ Plain /\ Frozen /\ NoApps
  \/ ListenerExit /\ exited' = TRUE /\ Frozen /\ NoApps
  \/ \E cb \in Callbacks : ListenerUnsubscribe(cb) /\ Plain /\ Frozen /\ NoApps
  \/ ListenerReadKey /\ Plain /\ Frozen /\ NoApps
  \/ WaiterFire /\ Plain /\ Frozen /\ NoApps
  \/ DispatchEnd /\ Plain /\ Frozen /\ NoApps

Fairness ==
  /\ WF_vars(PollTick /\ Plain /\ Frozen /\ NoApps)
  /\ WF_vars((OnStartReturn \/ OnStartThrow) /\ Plain /\ Frozen /\ NoApps)
  /\ WF_vars((OnExitReturn \/ OnExitThrow) /\ Plain /\ Frozen /\ NoApps)
  /\ WF_vars(DispatchStep /\ NoApps)

LiveSpec == Spec /\ Fairness

ReadKeyError == "Raw mode must be enabled to read individual keys"

\* index that a removal took out of the list: the first one that explains it
RemovedIndex(before, after) ==
  LET fits == {i \in 1 .. Len(before) : after = Splice(before, i)}
  IN  CHOOSE i \in fits : \A j \in fits : i <= j

Invoking == dispatch.on /\ dispatch'.idx = dispatch.idx + 1

\* What the step did to the dispatcher, recorded for the properties below:
\* call is the Terminal method the step called, if it was one of these two.
Track(call) ==
  /\ readOutcome' =
       IF call # "readKey" THEN "none"
       ELSE IF nextWaiter' > nextWaiter THEN "pending" ELSE ReadKeyError
  /\ rawRefused' = (rawRefused \/ (call = "enableRawMode" /\ ~isRawMode'))
  /\ staleCount' =
       IF isRawMode /\ ~isRawMode' THEN Len(keypressListeners')
       ELSE IF Len(keypressListeners') < Len(keypressListeners)
            /\ RemovedIndex(keypressListeners, keypressListeners')
                 <= staleCount
       THEN staleCount - 1
       ELSE staleCount
  /\ snapshot' =
       IF ~dispatch'.on THEN <<>>
       ELSE IF ~dispatch.on THEN keypressListeners
       ELSE snapshot
  /\ delivered' =
       IF ~dispatch'.on THEN <<>>
       ELSE IF Invoking THEN Append(delivered, Current)
       ELSE delivered
  /\ regAt' =
       IF nextWaiter' > nextWaiter
       THEN [regAt EXCEPT ![nextWaiter'] =
               [at |-> keyCount, inDispatch |-> dispatch.on]]
       ELSE regAt

\* The Terminal used on its own, as the unit tests do: run() is never called.
KeyInit ==
  /\ AppsInit
  /\ GameOff
  /\ isRunning = FALSE
  /\ isRawMode = FALSE
  /\ keypressListeners = <<>>
  /\ isTTY \in BOOLEAN
  /\ stdinRaw = FALSE
  /\ osHandlers = 0
  /\ rlClosed = FALSE
  /\ lineListeners = 0
  /\ out = <<>>
  /\ runPc = "off"
  /\ pollTimer = FALSE
  /\ inFlight = 0
  /\ lastInput = <<>>
  /\ linesSeen = 0
  /\ startFailed = FALSE
  /\ exitHookCalls = 0
  /\ exitHookRaised = FALSE
  /\ exitCalled = FALSE
  /\ runOnExit = "none"
  /\ rawOnObserve = "none"
  /\ nextWaiter = 0
  /\ resolved = [w \in Waiters |-> 0]
  /\ keyCount = 0
  /\ dispatch = Idle
  /\ exited = FALSE
  /\ touched = FALSE
  /\ readOutcome = "none"
  /\ rawRefused = FALSE
  /\ staleCount = 0
  /\ snapshot = <<>>
  /\ delivered = <<>>
  /\ regAt = [w \in Waiters |-> [at |-> 0, inDispatch |-> FALSE]]

KeyNext ==
  \/ Exit /\ exited' = TRUE /\ Track("exit") /\ NoApps
  \/ EnableRawMode /\ exited' = FALSE /\ Track("enableRawMode") /\ NoApps
  \/ DisableRawMode /\ exited' = FALSE /\ Track("disableRawMode") /\ NoApps
  \/ \E cb \in Callbacks : OnKeypress(cb) /\ Plain /\ Track("onKeypress") /\ NoApps
  \/ \E cb \in Callbacks : Unsubscribe(cb) /\ Plain /\ Track("unsubscribe") /\ NoApps
  \/ ReadKey /\ Plain /\ Track("readKey") /\ NoApps
  \/ Keypress /\ Plain /\ Track("none") /\ NoApps
  \/ ListenerNoop /\ Plain /\ Track("none") /\ NoApps
  \/ ListenerExit /\ exited' = TRUE /\ Track("exit") /\ NoApps
  \/ \E cb \in Callbacks :
       ListenerUnsubscribe(cb) /\ Plain /\ Track("unsubscribe")
         /\ NoApps
  \/ ListenerReadKey /\ Plain /\ Track("readKey") /\ NoApps
  \/ WaiterFire /\ Plain /\ Track("none") /\ NoApps
  \/ DispatchEnd /\ Plain /\ Track("none") /\ NoApps

KeySpec == KeyInit /\ [][KeyNext]_vars

\* run() on an input stream that is not a terminal (a pipe, a file): no
\* keypress handler is ever attached to it, so no keypress event arrives.
PipeInit == Init /\ isTTY = FALSE

PipeNext ==
  \/ Run /\ Plain /\ Track("none") /\ NoApps
  \/ OnStartReturn /\ Plain /\ Track("none") /\ NoApps
  \/ OnStartThrow /\ Plain /\ Track("none") /\ NoApps
  \/ PollTick /\ Plain /\ Track("none") /\ NoApps
  \/ OnExitReturn /\ Plain /\ Track("none") /\ NoApps
  \/ OnExitThrow /\ Plain /\ Track("none") /\ NoApps
  \/ \E raw \in RawLines : SubmitLine(raw) /\ Plain /\ Track("none") /\ NoApps
  \/ OnInputReturn /\ Plain /\ Track("none") /\ NoApps
  \/ OnInputThrow /\ Plain /\ Track("none") /\ NoApps
  \/ Exit /\ exited' = TRUE /\ Track("exit") /\ NoApps
  \/ EnableRawMode /\ exited' = FALSE /\ Track("enableRawMode") /\ NoApps
  \/ DisableRawMode /\ exited' = FALSE /\ Track("disableRawMode") /\ NoApps
  \/ \E cb \in Callbacks : OnKeypress(cb) /\ Plain /\ Track("onKeypress") /\ NoApps
  \/ \E cb \in Callbacks : Unsubscribe(cb) /\ Plain /\ Track("unsubscribe") /\ NoApps
  \/ ReadKey /\ Plain /\ Track("readKey") /\ NoApps

PipeSpec == PipeInit /\ [][PipeNext]_vars

\* ------------------------------------------------------------ AppSelector
\* String.prototype.toLowerCase, on the letters the inputs below use
UpperLetters == <<"A", "Q", "X">>
LowerLetters == <<"a", "q", "x">>

toLowerCaseChar_identity(c) == c

toLowerCaseChar(c) ==
  IF \E i \in DOMAIN UpperLetters : UpperLetters[i] = c
  THEN LowerLetters[CHOOSE i \in DOMAIN UpperLetters : UpperLetters[i] = c]
  ELSE c

toLowerCase(s) == [i \in DOMAIN s |-> toLowerCaseChar(s[i])]

DigitChars == <<"0", "1", "2", "3", "4", "5", "6", "7", "8", "9">>
IsDigit(c) == \E i \in DOMAIN DigitChars : DigitChars[i] = c
DigitValue(c) == (CHOOSE i \in DOMAIN DigitChars : DigitChars[i] = c) - 1

\* the longest prefix of s made of decimal digits
RECURSIVE DigitPrefix(_)
DigitPrefix(s) ==
  IF s = <<>> \/ ~IsDigit(Head(s)) THEN <<>>
  ELSE <<Head(s)>> \o DigitPrefix(Tail(s))

RECURSIVE DecimalValue(_)
DecimalValue(ds) ==
  IF ds = <<>> THEN 0
  ELSE 10 * DecimalValue(SubSeq(ds, 1, Len(ds) - 1)) + DigitValue(ds[Len(ds)])

NaN == [nan |-> TRUE, n |-> 0]

\* parseInt(s, 10): leading white space, an optional sign, then the longest
\* run of digits; what follows the digits is ignored; NaN without a digit
parseInt(s) ==
  LET t == TrimLeft(s)
      signed == t # <<>> /\ Head(t) \in {"+", "-"}
      sign == IF signed /\ Head(t) = "-" THEN -1 ELSE 1
      ds == DigitPrefix(IF signed THEN Tail(t) ELSE t)
  IN  IF ds = <<>> THEN NaN
      ELSE [nan |-> FALSE, n |-> sign * DecimalValue(ds)]

\* lines typed at the menu
SelInputs ==
  {<<"q">>, <<"Q">>, <<" ", "2", " ">>, <<"9">>, <<"0">>, <<>>, <<"x">>,
   <<"1", "x">>}
  \cup {<<DigitChars[a + 1]>> : a \in 1 .. NumApps}

Green == [color |-> "green", bold |-> FALSE, newLine |-> TRUE]

WelcomeMsg ==
  display(<<"Welcome to ", "App Selector", " v", "1.0.0">>,
          [color |-> "green", bold |-> TRUE, newLine |-> TRUE])

SelectMsg == display(<<"\nSelect an application to run:\n">>, NoOptions)

MenuLine(a) == display(<<ToString(a), ". ", "name", " - ", "description">>, Green)

RECURSIVE MenuLines(_)
MenuLines(n) == IF n = 0 THEN <<>> ELSE Append(MenuLines(n - 1), MenuLine(n))

QuitLine ==
  display(<<"\nq. Quit">>, [color |-> "yellow", bold |-> FALSE, newLine |-> TRUE])

FirstChoicePrompt ==
  display(<<"\nEnter your choice: ">>,
          [color |-> "none", bold |-> FALSE, newLine |-> FALSE])

InvalidChoiceMsg ==
  display(<<"\nInvalid choice. Please try again.\n">>,
          [color |-> "red", bold |-> FALSE, newLine |-> TRUE])

ChoicePrompt ==
  display(<<"Enter your choice: ">>,
          [color |-> "none", bold |-> FALSE, newLine |-> FALSE])

FarewellMsg == display(<<"\nThank you for using App Selector!\n">>, Green)

HasChild == isInSubApp /\ subApp # 0

\* onInput calls of the selector suspended in "await this.subApp.onStart"
Suspended == Cardinality({a \in Apps : childPc[a] = "starting"})

\* subApp.onStart(terminal) is called and has not settled
StartChild(a) ==
  /\ childStarts' = [childStarts EXCEPT ![a] = @ + 1]
  /\ childPc' = [childPc EXCEPT ![a] = "starting"]

\* AppSelector.onStart, called by run()
SelOnStart ==
  /\ runPc = "onStart"
  /\ selPc = "new"
  /\ IF HasChild
     THEN /\ StartChild(subApp)
          /\ selPc' = "forwarded"
          /\ UNCHANGED <<out, isWaitingForChoice>>
     ELSE /\ out' = out \o <<ANSI_CONTROL.clearScreen, WelcomeMsg, SelectMsg>>
                      \o MenuLines(NumApps) \o <<QuitLine, FirstChoicePrompt>>
          /\ isWaitingForChoice' = TRUE
          /\ selPc' = "started"
          /\ UNCHANGED <<childStarts, childPc>>
  /\ UNCHANGED <<termVars, isTTY, rlClosed, lineListeners, runPc, pollTimer,
                 inFlight, lastInput, linesSeen, startFailed, exitHookCalls,
                 exitHookRaised, exitCalled, runOnExit, rawOnObserve, keyVars,
                 keyCount, dispatch, isInSubApp, subApp, childExits,
                 childInput>>

ValidChoice_zeroBased(n) == ~n.nan /\ n.n >= 0 /\ n.n < NumApps

\* !isNaN(choiceNum) && choiceNum >= 1 && choiceNum <= this.apps.length
ValidChoice(n) == ~n.nan /\ n.n >= 1 /\ n.n <= NumApps

childOnInput_lowered(input) ==
  childInput' = [to |-> subApp, input |-> toLowerCase(input),
                 count |-> childInput.count + 1]

\* this.subApp.onInput(input, terminal)
childOnInput(input) ==
  childInput' = [to |-> subApp, input |-> input,
                 count |-> childInput.count + 1]

\* AppSelector.onInput(input, terminal) up to its first await
selOnInput(input) ==
  IF HasChild
  THEN \* forwarded to the child
       /\ childOnInput(input)
       /\ touched' = FALSE
       /\ UNCHANGED <<termVars, exitCalled, out, selVars, childPc,
                      childStarts>>
  ELSE IF ~isWaitingForChoice
  THEN /\ touched' = FALSE
       /\ UNCHANGED <<termVars, exitCalled, out, selVars, childPc,
                      childStarts, childInput>>
  ELSE LET choice == toLowerCase(trim(input))
           choiceNum == parseInt(choice)
       IN  IF choice = <<"q">>
           THEN /\ isWaitingForChoice' = FALSE
                /\ exit
                /\ NoteExit
                /\ UNCHANGED <<keypressListeners, out, isInSubApp, subApp,
                               selPc, childPc, childStarts, childInput>>
           ELSE IF ValidChoice(choiceNum)
           THEN /\ isWaitingForChoice' = FALSE
                /\ subApp' = choiceNum.n
                /\ isInSubApp' = TRUE
                /\ StartChild(choiceNum.n)
                /\ touched' = FALSE
                /\ UNCHANGED <<termVars, exitCalled, out, selPc, childInput>>
           ELSE /\ out' = out \o <<InvalidChoiceMsg, ChoicePrompt>>
                /\ isWaitingForChoice' = TRUE
                /\ touched' = FALSE
                /\ UNCHANGED <<termVars, exitCalled, isInSubApp, subApp,
                               selPc, childPc, childStarts, childInput>>

\* a "line" event of rl while the AppSelector is the application: the line
\* handler of run() calls app.onInput(input.trim(), this)
SelLine(raw) ==
  /\ ~dispatch.on
  /\ ~rlClosed
  /\ linesSeen < SelLines
  /\ lineListeners > 0
  /\ isRunning
  /\ inFlight' = inFlight + 1
  /\ lastInput' = trim(raw)
  /\ linesSeen' = linesSeen + 1
  /\ selOnInput(trim(raw))
  /\ exited' = ~isRunning'
  /\ UNCHANGED <<isTTY, rlClosed, lineListeners, runPc, pollTimer,
                 startFailed, exitHookCalls, exitHookRaised, runOnExit,
                 rawOnObserve, keyVars, keyCount, dispatch, childExits>>

\* the child's onStart returned: the selector's onInput call can return
ChildStartReturn(a) ==
  /\ childPc[a] = "starting"
  /\ childPc' = [childPc EXCEPT ![a] = "active"]
  /\ UNCHANGED <<termVars, isTTY, runVars, exitCalled, keyVars, keyCount,
                 dispatch, selVars, childStarts, childExits, childInput>>

\* variant: the selector goes back to its menu when the child's onStart
\* raises
ChildStartThrow_backToMenu(a) ==
  /\ childPc[a] = "starting"
  /\ childPc' = [childPc EXCEPT ![a] = "failed"]
  /\ OnInputThrow
  /\ isInSubApp' = FALSE
  /\ subApp' = 0
  /\ isWaitingForChoice' = TRUE
  /\ UNCHANGED <<selPc, childStarts, childExits, childInput>>

\* the child's onStart raised: the selector's onInput call raises with it
ChildStartThrow(a) ==
  /\ childPc[a] = "starting"
  /\ childPc' = [childPc EXCEPT ![a] = "failed"]
  /\ OnInputThrow
  /\ UNCHANGED <<selVars, childStarts, childExits, childInput>>

SelOnExit_parentFirst ==
  /\ runPc = "onExit"
  /\ selPc \in {"new", "started", "forwarded"}
  /\ out' = Append(out, FarewellMsg)
  /\ IF HasChild
     THEN /\ childExits' = [childExits EXCEPT ![subApp] = @ + 1]
          /\ selPc' = "childExit"
     ELSE /\ selPc' = "exited"
          /\ UNCHANGED childExits
  /\ UNCHANGED <<termVars, isTTY, rlClosed, lineListeners, runPc, pollTimer,
                 inFlight, lastInput, linesSeen, startFailed, exitHookCalls,
                 exitHookRaised, exitCalled, runOnExit, rawOnObserve, keyVars,
                 keyCount, dispatch, isInSubApp, subApp, isWaitingForChoice,
                 childPc, childStarts, childInput>>

\* AppSelector.onExit, called by run(), up to its await
SelOnExit ==
  /\ runPc = "onExit"
  /\ selPc \in {"new", "started", "forwarded"}
  /\ IF HasChild
     THEN /\ childExits' = [childExits EXCEPT ![subApp] = @ + 1]
          /\ selPc' = "childExit"
          /\ UNCHANGED out
     ELSE /\ out' = Append(out, FarewellMsg)
          /\ selPc' = "exited"
          /\ UNCHANGED childExits
  /\ UNCHANGED <<termVars, isTTY, rlClosed, lineListeners, runPc, pollTimer,
                 inFlight, lastInput, linesSeen, startFailed, exitHookCalls,
                 exitHookRaised, exitCalled, runOnExit, rawOnObserve, keyVars,
                 keyCount, dispatch, isInSubApp, subApp, isWaitingForChoice,
                 childPc, childStarts, childInput>>

\* the child's onExit returned: the farewell message
ChildExitReturn ==
  /\ selPc = "childExit"
  /\ out' = Append(out, FarewellMsg)
  /\ selPc' = "exited"
  /\ UNCHANGED <<termVars, isTTY, rlClosed, lineListeners, runPc, pollTimer,
                 inFlight, lastInput, linesSeen, startFailed, exitHookCalls,
                 exitHookRaised, exitCalled, runOnExit, rawOnObserve, keyVars,
                 keyCount, dispatch, isInSubApp, subApp, isWaitingForChoice,
                 childVars>>

\* the child's onExit raised: the selector's onExit raises with it
ChildExitThrow ==
  /\ selPc = "childExit"
  /\ selPc' = "exitRaised"
  /\ UNCHANGED <<termVars, isTTY, runVars, exitCalled, keyVars, keyCount,
                 dispatch, isInSubApp, subApp, isWaitingForChoice, childVars>>

\* run(new AppSelector(apps)): the hooks of run() settle when the selector's
\* do; a child that has been started may call terminal.exit() at any time
SelNext ==
  \/ Run /\ Plain /\ Frozen /\ NoApps
  \/ SelOnStart /\ Plain /\ Frozen /\ NoGame
  \/ OnStartReturn /\ selPc = "started" /\ Plain /\ Frozen /\ NoApps
  \/ \E raw \in SelInputs : SelLine(raw) /\ Frozen /\ NoGame
  \/ \E a \in Apps : ChildStartReturn(a) /\ Plain /\ Frozen /\ NoGame
  \/ \E a \in Apps : ChildStartThrow(a) /\ Plain /\ Frozen /\ NoGame
  \/ OnInputReturn /\ inFlight > Suspended /\ Plain /\ Frozen /\ NoApps
  \/ OnInputThrow /\ inFlight > Suspended /\ childInput.count > 0
       /\ Plain /\ Frozen /\ NoApps
  \/ Exit /\ subApp # 0 /\ exited' = TRUE /\ Frozen /\ NoApps
  \/ PollTick /\ Plain /\ Frozen /\ NoApps
  \/ SelOnExit /\ Plain /\ Frozen /\ NoGame
  \/ ChildExitReturn /\ Plain /\ Frozen /\ NoGame
  \/ ChildExitThrow /\ Plain /\ Frozen /\ NoGame
  \/ OnExitReturn /\ selPc = "exited" /\ Plain /\ Frozen /\ NoApps
  \/ OnExitThrow /\ selPc = "exitRaised" /\ Plain /\ Frozen /\ NoApps

SelSpec == Init /\ [][SelNext]_vars

\* ------------------------------------------------- display() on its own
\* texts handed to display(): empty, one word, two lines
Texts == {<<>>, <<"T">>, <<"a", "\n", "b">>}

\* the options object as the caller writes it: a field is absent or given
OptionSets ==
  [color : Colors \cup {"none"}, bold : {"absent", "true", "false"},
   newLine : {"absent", "true", "false"}]

\* how display() reads its options: options.bold === true and
\* options.newLine !== false
WithDefaults(o) ==
  [color |-> o.color, bold |-> (o.bold = "true"),
   newLine |-> (o.newLine # "false")]

\* terminal.display(content, options), called outside run()
Display(content, o) ==
  /\ runPc = "idle"
  /\ Len(shown) < MaxWrites
  /\ out' = Append(out, display(content, WithDefaults(o)))
  /\ shown' = Append(shown, [content |-> content, options |-> o])
  /\ UNCHANGED <<termVars, isTTY, rlClosed, lineListeners, runPc, pollTimer,
                 inFlight, lastInput, linesSeen, startFailed, exitHookCalls,
                 exitHookRaised, exitCalled, runOnExit, rawOnObserve,
                 keyVars, keyCount, dispatch, exited, touched, histVars,
                 appVars, gameVars, boardVars>>

DisplayNext == \E content \in Texts, o \in OptionSets : Display(content, o)

DisplaySpec == Init /\ [][DisplayNext]_vars

\* ------------------------------------------------------------- the games
\* SnakeGame (part_004), FlappyBird (part_005), DoomArena (part_006) and
\* PixelQuest (apps/PixelQuest.ts) run by Terminal.run().  Positions,
\* health and ammunition are kept as the number of updates since the game
\* was initialized (world) and the latest key applied to the player
\* (control); the frames a game draws are not kept in out, stepped tells
\* that a step drew one.  Lines typed go to onInput, which ignores them.
Games == {"snake", "flappy", "doom", "pixel"}

\* key.name of a keypress event; "ctrl-c" is the key c with key.ctrl set
Keys == {"q", "ctrl-c", "r", "p", "space", "up", "escape"}

\* what one firing of the game loop finds: nothing special, points gained,
\* or a collision / the player's death
Outcomes == {"move", "score", "crash"}

\* the callback a game registers with terminal.onKeypress
GameCallback == <<"cb", 1>>

\* the game's fields; exits: the handler in progress called terminal.exit()
Fields ==
  [gameState |-> gameState, gameOver |-> gameOver, isPaused |-> isPaused,
   gameInterval |-> gameInterval, timers |-> timers,
   pipeSpawnTimer |-> pipeSpawnTimer,
   score |-> score, world |-> world, control |-> control, pipes |-> pipes,
   selectedMenuItem |-> selectedMenuItem, pendingExit |-> pendingExit,
   stepped |-> FALSE, exits |-> FALSE]

Put(g) ==
  /\ gameState' = g.gameState
  /\ gameOver' = g.gameOver
  /\ isPaused' = g.isPaused
  /\ gameInterval' = g.gameInterval
  /\ timers' = g.timers
  /\ pipeSpawnTimer' = g.pipeSpawnTimer
  /\ score' = g.score
  /\ world' = g.world
  /\ control' = g.control
  /\ pipes' = g.pipes
  /\ selectedMenuItem' = g.selectedMenuItem
  /\ pendingExit' = g.pendingExit
  /\ stepped' = g.stepped

Quit(k) == k \in {"q", "ctrl-c"}

\* stopGame(): clearInterval on every timer that is set
stopGame(g) ==
  [g EXCEPT !.gameInterval = FALSE, !.pipeSpawnTimer = FALSE,
            !.timers = IF g.gameInterval THEN @ - 1 ELSE @]

initializeGame(g) ==
  [g EXCEPT !.score = 0, !.world = 0, !.control = "none", !.pipes = 0,
            !.gameOver = FALSE, !.isPaused = FALSE]

\* render(), showMenu(), renderGame(): a frame is drawn
render(g) == [g EXCEPT !.stepped = TRUE]

\* variant: startGame() that does not clear the interval it holds
startGame_keepsOld(g) ==
  IF game = "flappy"
  THEN [g EXCEPT !.gameInterval = TRUE, !.timers = @ + 1, !.pipes = @ + 1,
                 !.pipeSpawnTimer = TRUE]
  ELSE [g EXCEPT !.gameInterval = TRUE, !.timers = @ + 1]

\* startGame() / startGameLoop(): the interval held is cleared, setInterval
\* starts a new one; FlappyBird also spawns the first pipe and starts its
\* pipe-spawn timer
startGame(g) ==
  IF game = "flappy"
  THEN [stopGame(g) EXCEPT !.gameInterval = TRUE, !.timers = @ + 1,
                           !.pipes = @ + 1, !.pipeSpawnTimer = TRUE]
  ELSE [stopGame(g) EXCEPT !.gameInterval = TRUE, !.timers = @ + 1]

\* setTimeout(() => terminal.exit(), 50)
scheduleExit(g) == [g EXCEPT !.pendingExit = @ + 1]

togglePause(g) == render([g EXCEPT !.isPaused = ~@])

\* SnakeGame.handleDirectionChange: "up" is the arrow key of Keys
handleDirectionChange(k, g) ==
  IF k = "up" THEN [g EXCEPT !.control = k] ELSE g

\* variant: the pause keys are tested before the game-over test
snakeKey_pauseFirst(k, g) ==
  IF Quit(k) THEN scheduleExit([stopGame(g) EXCEPT !.gameOver = TRUE])
  ELSE IF k \in {"p", "space"} THEN togglePause(g)
  ELSE IF g.gameOver
  THEN IF k = "r" THEN startGame(initializeGame(stopGame(g))) ELSE g
  ELSE IF ~g.isPaused /\ ~g.gameOver THEN handleDirectionChange(k, g)
  ELSE g

\* the keypress listener of SnakeGame
snakeKey(k, g) ==
  IF Quit(k) THEN scheduleExit([stopGame(g) EXCEPT !.gameOver = TRUE])
  ELSE IF g.gameOver
  THEN IF k = "r" THEN startGame(initializeGame(stopGame(g))) ELSE g
  ELSE IF k \in {"p", "space"} THEN togglePause(g)
  ELSE IF ~g.isPaused /\ ~g.gameOver THEN handleDirectionChange(k, g)
  ELSE g

\* the keypress listener of FlappyBird; flap() on space
flappyKey(k, g) ==
  IF Quit(k) THEN scheduleExit([stopGame(g) EXCEPT !.gameOver = TRUE])
  ELSE IF g.gameOver
  THEN IF k = "r" THEN startGame(initializeGame(stopGame(g))) ELSE g
  ELSE IF k = "p" THEN togglePause(g)
  ELSE IF ~g.isPaused /\ ~g.gameOver /\ k = "space"
  THEN [g EXCEPT !.control = k]
  ELSE g

\* DoomArena.startNewGame
startNewGame(g) ==
  startGame([initializeGame(g) EXCEPT !.gameState = "Playing"])

\* DoomArena.handleGameInput: pause, or an arrow key fires a bullet
doomHandleGameInput(k, g) ==
  IF k = "p" THEN [g EXCEPT !.gameState = "Paused"]
  ELSE IF k = "up" THEN [g EXCEPT !.control = k]
  ELSE g

\* the keypress listener of DoomArena
doomKey(k, g) ==
  IF Quit(k) THEN scheduleExit(stopGame(g))
  ELSE CASE g.gameState = "Menu" ->
              IF k = "space" THEN startNewGame(g) ELSE g
         [] g.gameState = "Playing" -> doomHandleGameInput(k, g)
         [] g.gameState = "GameOver" ->
              IF k = "r" THEN startNewGame(g) ELSE g
         [] g.gameState = "Paused" ->
              IF k = "p" THEN [g EXCEPT !.gameState = "Playing"] ELSE g

\* PixelQuest.startGame: initializeLevel keeps the score
pixelStartGame(g) ==
  startGame([g EXCEPT !.gameState = "Playing", !.world = 0,
                      !.control = "none"])

\* PixelQuest.selectMenuItem
selectMenuItem(g) ==
  CASE g.selectedMenuItem = 0 -> pixelStartGame(g)
    [] g.selectedMenuItem = 1 -> render([g EXCEPT !.gameState = "Instructions"])
    [] g.selectedMenuItem = 2 -> render([g EXCEPT !.gameState = "HighScores"])
    [] g.selectedMenuItem = 3 -> [g EXCEPT !.exits = TRUE]

\* PixelQuest.handleMenuInput: "up" moves the selection, wrapping round
handleMenuInput(k, g) ==
  IF k = "up"
  THEN render([g EXCEPT !.selectedMenuItem = (@ - 1 + 4) % 4])
  ELSE IF k = "space" THEN selectMenuItem(g)
  ELSE g

\* PixelQuest.handleGameInput
pixelHandleGameInput(k, g) ==
  IF k \in {"space", "up"} THEN [g EXCEPT !.control = k]
  ELSE IF k = "escape"
  THEN render([stopGame(g) EXCEPT !.gameState = "Menu"])
  ELSE g

\* the keypress listener of PixelQuest: the quit test follows the switch
pixelKey(k, g) ==
  LET s == CASE g.gameState = "Menu" -> handleMenuInput(k, g)
             [] g.gameState = "Playing" -> pixelHandleGameInput(k, g)
             [] OTHER ->
                  IF k \in {"escape", "q"}
                  THEN render([g EXCEPT !.gameState = "Menu"])
                  ELSE g
  IN  IF Quit(k) THEN [stopGame(s) EXCEPT !.exits = TRUE] ELSE s

keyHandler(k, g) ==
  CASE game = "snake" -> snakeKey(k, g)
    [] game = "flappy" -> flappyKey(k, g)
    [] game = "doom" -> doomKey(k, g)
    [] game = "pixel" -> pixelKey(k, g)

\* updateGame(): the snake / the bird / the arena / the player moves
updateGame(o, g) ==
  CASE game = "snake" ->
         IF o = "crash" THEN [g EXCEPT !.gameOver = TRUE]
         ELSE [g EXCEPT !.world = @ + 1,
                        !.score = IF o = "score" THEN @ + 10 ELSE @]
    [] game = "flappy" ->
         [g EXCEPT !.world = @ + 1, !.gameOver = (o = "crash"),
                   !.score = IF o = "score" THEN @ + 1 ELSE @]
    [] game = "doom" ->
         [g EXCEPT !.world = @ + 1,
                   !.score = IF o = "score" THEN @ + 100 ELSE @]
    [] game = "pixel" ->
         IF o = "crash"
         THEN [stopGame(g) EXCEPT !.world = @ + 1, !.gameState = "GameOver"]
         ELSE [g EXCEPT !.world = @ + 1,
                        !.score = IF o = "score" THEN @ + 1000 ELSE @]

\* the callback of gameInterval
gameLoop(o, g) ==
  CASE game \in {"snake", "flappy"} ->
         IF ~g.isPaused /\ ~g.gameOver THEN render(updateGame(o, g)) ELSE g
    [] game = "doom" ->
         IF g.gameState = "Playing"
         THEN LET u == render(updateGame(o, g))
              IN  IF o = "crash" THEN [u EXCEPT !.gameState = "GameOver"]
                  ELSE u
         ELSE g
    [] game = "pixel" -> render(updateGame(o, g))

\* run(app) with app one of the games
GameRun(g) ==
  /\ Run
  /\ game = "none"
  /\ game' = g
  /\ UNCHANGED <<gamePc, gameState, gameOver, isPaused, gameInterval,
                 timers, pipeSpawnTimer, score, world, control, pipes,
                 selectedMenuItem, pendingExit, keyName, ticks, stepped>>

\* onStart up to its await: raw mode, the listener, the loop or the menu
GameOnStart ==
  /\ ~dispatch.on
  /\ runPc = "onStart"
  /\ game # "none"
  /\ gamePc = "new"
  /\ enableRawMode
  /\ exited' = FALSE
  /\ onKeypress(GameCallback)
  /\ Put(IF game \in {"snake", "flappy"}
         THEN startGame(initializeGame(Fields))
         ELSE render(Fields))
  /\ gamePc' = "starting"
  /\ UNCHANGED <<isRunning, isTTY, runVars, exitCalled, keyCount, dispatch,
                 game, keyName, ticks>>

\* the timer awaited by onStart fired: onStart returns to run()
GameStartReturn ==
  /\ OnStartReturn
  /\ gamePc = "starting"
  /\ gamePc' = "started"
  /\ stepped' = FALSE
  /\ UNCHANGED <<game, gameState, gameOver, isPaused, gameInterval,
                 timers, pipeSpawnTimer, score, world, control, pipes,
                 selectedMenuItem, pendingExit, keyName, ticks>>

\* a key is pressed
GameKeypress(k) ==
  /\ Keypress
  /\ keyName' = k
  /\ stepped' = FALSE
  /\ UNCHANGED <<game, gamePc, gameState, gameOver, isPaused, gameInterval,
                 timers, pipeSpawnTimer, score, world, control, pipes,
                 selectedMenuItem, pendingExit, ticks>>

\* the game's listener runs for the key
GameListener ==
  /\ AtListener
  /\ Current = GameCallback
  /\ LET g == keyHandler(keyName, Fields)
     IN  /\ Put(g)
         /\ IF g.exits
            THEN /\ exit
                 /\ NoteExit
                 /\ exited' = TRUE
            ELSE /\ exited' = FALSE
                 /\ touched' = FALSE
                 /\ UNCHANGED <<isRunning, isRawMode, stdinRaw, osHandlers,
                                exitCalled>>
  /\ Advance
  /\ UNCHANGED <<keypressListeners, isTTY, runVars, keyVars, keyCount, game,
                 gamePc, keyName, ticks>>

GameDispatchEnd ==
  /\ DispatchEnd
  /\ keyName' = "none"
  /\ stepped' = FALSE
  /\ UNCHANGED <<game, gamePc, gameState, gameOver, isPaused, gameInterval,
                 timers, pipeSpawnTimer, score, world, control, pipes,
                 selectedMenuItem, pendingExit, ticks>>

\* one firing of gameInterval
GameTick(o) ==
  /\ ~dispatch.on
  /\ gameInterval
  /\ ticks < MaxTicks
  /\ ticks' = ticks + 1
  /\ Put(gameLoop(o, Fields))
  /\ UNCHANGED <<termVars, isTTY, runVars, exitCalled, keyVars, keyCount,
                 dispatch, game, gamePc, keyName>>

\* one firing of FlappyBird's pipeSpawnTimer
SpawnTick ==
  /\ ~dispatch.on
  /\ pipeSpawnTimer
  /\ ticks < MaxTicks
  /\ ticks' = ticks + 1
  /\ Put(IF ~isPaused /\ ~gameOver
         THEN [Fields EXCEPT !.pipes = @ + 1] ELSE Fields)
  /\ UNCHANGED <<termVars, isTTY, runVars, exitCalled, keyVars, keyCount,
                 dispatch, game, gamePc, keyName>>

\* a timer set by a quit key fires: terminal.exit()
ExitTimer ==
  /\ Exit
  /\ pendingExit > 0
  /\ pendingExit' = pendingExit - 1
  /\ exited' = TRUE
  /\ stepped' = FALSE
  /\ UNCHANGED <<game, gamePc, gameState, gameOver, isPaused, gameInterval,
                 timers, pipeSpawnTimer, score, world, control, pipes,
                 selectedMenuItem, keyName, ticks>>

GamePoll ==
  /\ PollTick
  /\ game # "none"
  /\ stepped' = FALSE
  /\ UNCHANGED <<game, gamePc, gameState, gameOver, isPaused, gameInterval,
                 timers, pipeSpawnTimer, score, world, control, pipes,
                 selectedMenuItem, pendingExit, keyName, ticks>>

\* variant: onExit that leaves the timers running
GameOnExit_keepsTimers ==
  /\ ~dispatch.on
  /\ runPc = "onExit"
  /\ gamePc = "started"
  /\ IF game = "pixel"
     THEN touched' = FALSE /\ UNCHANGED <<isRawMode, stdinRaw, osHandlers>>
     ELSE disableRawMode
  /\ exited' = FALSE
  /\ Put(Fields)
  /\ gamePc' = "exiting"
  /\ UNCHANGED <<isRunning, keypressListeners, isTTY, runVars, exitCalled,
                 keyVars, keyCount, dispatch, game, keyName, ticks>>

\* onExit up to its await: the timers are cleared; every game but
\* PixelQuest calls disableRawMode()
GameOnExit ==
  /\ ~dispatch.on
  /\ runPc = "onExit"
  /\ gamePc = "started"
  /\ IF game = "pixel"
     THEN touched' = FALSE /\ UNCHANGED <<isRawMode, stdinRaw, osHandlers>>
     ELSE disableRawMode
  /\ exited' = FALSE
  /\ Put(stopGame(Fields))
  /\ gamePc' = "exiting"
  /\ UNCHANGED <<isRunning, keypressListeners, isTTY, runVars, exitCalled,
                 keyVars, keyCount, dispatch, game, keyName, ticks>>

\* the timer awaited by onExit fired: onExit has completed
GameExitReturn ==
  /\ OnExitReturn
  /\ gamePc = "exiting"
  /\ gamePc' = "exited"
  /\ stepped' = FALSE
  /\ UNCHANGED <<game, gameState, gameOver, isPaused, gameInterval,
                 timers, pipeSpawnTimer, score, world, control, pipes,
                 selectedMenuItem, pendingExit, keyName, ticks>>

\* the history and the AppSelector play no part in a game's run
NoSel == UNCHANGED <<histVars, appVars, shown, boardVars>>

GameNext ==
  \/ \E g \in Games : GameRun(g) /\ Plain /\ NoSel
  \/ GameOnStart /\ NoSel
  \/ GameStartReturn /\ Plain /\ NoSel
  \/ \E k \in Keys : GameKeypress(k) /\ Plain /\ NoSel
  \/ GameListener /\ NoSel
  \/ GameDispatchEnd /\ Plain /\ NoSel
  \/ \E o \in Outcomes : GameTick(o) /\ Plain /\ NoSel
  \/ SpawnTick /\ Plain /\ NoSel
  \/ ExitTimer /\ NoSel
  \/ GamePoll /\ Plain /\ NoSel
  \/ GameOnExit /\ NoSel
  \/ GameExitReturn /\ Plain /\ NoSel

GameSpec == Init /\ [][GameNext]_vars

\* ------------------------------------------------ SnakeGame, cell by cell
\* The board of SnakeGame (part_004).  The listener and the interval
\* callback are the ones of the games above; here the snake, the food and
\* the directions are kept as well, and what a tick finds (collision, food,
\* free cell) follows from the cells.
BOARD_WIDTH == 30
BOARD_HEIGHT == 15

Directions == {"UP", "DOWN", "LEFT", "RIGHT"}

opposites == [UP |-> "DOWN", DOWN |-> "UP", LEFT |-> "RIGHT", RIGHT |-> "LEFT"]

\* the cells Math.random is let to pick for the food: the two cells ahead
\* of the snake's first position and a corner
FoodCells == {<<16, 7>>, <<17, 7>>, <<0, 0>>}

\* keys of the listener: the arrows, pause, restart (the quit keys are
\* followed in the runs of the games above)
SnakeKeyNames == {"up", "down", "left", "right", "p", "r"}

InitialSnake ==
  LET cx == BOARD_WIDTH \div 2
      cy == BOARD_HEIGHT \div 2
  IN  <<<<cx, cy>>, <<cx - 1, cy>>, <<cx - 2, cy>>>>

\* snake.some(segment => segment.x === c.x && segment.y === c.y)
OnSnake(c, s) == \E i \in 1 .. Len(s) : s[i] = c

\* variant: generateFood() without the loop that keeps it off the snake
generateFood_anyCell(s) ==
  FoodCells

\* generateFood(): the cells the loop can end on
generateFood(s) == {c \in FoodCells : ~OnSnake(c, s)}

\* the head one cell further in direction d
MoveHead(c, d) ==
  CASE d = "UP" -> <<c[1], c[2] - 1>>
    [] d = "DOWN" -> <<c[1], c[2] + 1>>
    [] d = "LEFT" -> <<c[1] - 1, c[2]>>
    [] d = "RIGHT" -> <<c[1] + 1, c[2]>>

OffBoard(c) ==
  c[1] < 0 \/ c[1] >= BOARD_WIDTH \/ c[2] < 0 \/ c[2] >= BOARD_HEIGHT

getDirectionFromKey(k) ==
  CASE k = "up" -> "UP"
    [] k = "down" -> "DOWN"
    [] k = "left" -> "LEFT"
    [] k = "right" -> "RIGHT"
    [] OTHER -> "null"

\* variant: every direction change is accepted
isValidDirectionChange_any(newDirection) ==
  TRUE

isValidDirectionChange(newDirection) ==
  IF Len(snake) = 1 THEN TRUE ELSE opposites[direction] # newDirection

\* what updateGame() finds for the new head
Found(head) ==
  IF OffBoard(head) \/ OnSnake(head, snake) THEN "crash"
  ELSE IF head = food THEN "score"
  ELSE "move"

\* variant: updateGame() that drops the tail after eating as well
snakeCells_noGrowth(head, o) ==
  IF o = "crash" THEN snake
  ELSE <<head>> \o SubSeq(snake, 1, Len(snake) - 1)

\* the snake after updateGame(): unshift(head), and pop() unless food
snakeCells(head, o) ==
  CASE o = "crash" -> snake
    [] o = "score" -> <<head>> \o snake
    [] o = "move" -> <<head>> \o SubSeq(snake, 1, Len(snake) - 1)

\* initializeGame() on the board, f the food cell generateFood() ends on
BoardInit(f) ==
  /\ snake' = InitialSnake
  /\ direction' = "RIGHT"
  /\ nextDirection' = "RIGHT"
  /\ f \in generateFood(InitialSnake)
  /\ food' = f

\* onStart: initializeGame() and startGame(); the Terminal is left out
SnakeStart(f) ==
  /\ game = "none"
  /\ game' = "snake"
  /\ gamePc' = "started"
  /\ Put(startGame(initializeGame(Fields)))
  /\ BoardInit(f)
  /\ UNCHANGED <<keyName, ticks>>

\* the keypress listener of SnakeGame for the key k
SnakeKey(k, f) ==
  /\ game = "snake"
  /\ keyCount < SnakeKeys
  /\ keyCount' = keyCount + 1
  /\ Put(snakeKey(k, Fields))
  /\ IF Quit(k) THEN UNCHANGED snakeVars
     ELSE IF gameOver
     THEN IF k = "r" THEN BoardInit(f)
          ELSE f = food /\ UNCHANGED snakeVars
     ELSE IF k \in {"p", "space"} THEN UNCHANGED snakeVars
     ELSE IF ~isPaused /\ ~gameOver
               /\ getDirectionFromKey(k) # "null"
               /\ isValidDirectionChange(getDirectionFromKey(k))
     THEN /\ nextDirection' = getDirectionFromKey(k)
          /\ UNCHANGED <<snake, food, direction>>
     ELSE UNCHANGED snakeVars
  /\ (~(gameOver /\ k = "r" /\ ~Quit(k)) => f = food)
  /\ UNCHANGED <<game, gamePc, keyName, ticks>>

\* one firing of gameInterval: updateGame() and render() unless the game
\* is paused or over; f the food cell generateFood() ends on
SnakeTick(f) ==
  /\ game = "snake"
  /\ gameInterval
  /\ ticks < SnakeTicks
  /\ ticks' = ticks + 1
  /\ LET head == MoveHead(snake[1], nextDirection)
         o == Found(head)
     IN  /\ Put(gameLoop(o, Fields))
         /\ IF ~isPaused /\ ~gameOver
            THEN /\ direction' = nextDirection
                 /\ snake' = snakeCells(head, o)
                 /\ IF o = "score"
                    THEN f \in generateFood(snake') /\ food' = f
                    ELSE f = food /\ food' = food
                 /\ UNCHANGED nextDirection
            ELSE f = food /\ UNCHANGED snakeVars
  /\ UNCHANGED <<game, gamePc, keyName, keyCount>>

\* the Terminal, the AppSelector and the history play no part
NoTerminal ==
  UNCHANGED <<termVars, isTTY, runVars, exitCalled, keyVars, dispatch,
              exited, touched, histVars, appVars, shown>>

\* the boards of the other games
NoOtherBoard == UNCHANGED <<doom, pixel>>

SnakeNext ==
  \/ \E f \in FoodCells :
       SnakeStart(f) /\ UNCHANGED keyCount /\ NoTerminal /\ NoOtherBoard
  \/ \E k \in SnakeKeyNames, f \in FoodCells \cup {food} :
       SnakeKey(k, f) /\ NoTerminal /\ NoOtherBoard
  \/ \E f \in FoodCells \cup {food} :
       SnakeTick(f) /\ NoTerminal /\ NoOtherBoard

SnakeSpec == Init /\ [][SnakeNext]_vars

\* ------------------------------------------------ DoomArena, cell by cell
\* The arena of DoomArena (part_006).  The listener and the interval
\* callback are the ones of the games above; here the player, the enemies
\* and the frame last rendered are kept as well.  No arrow key is pressed,
\* so there is no bullet, no enemy dies, no power-up drops and
\* checkWaveComplete() finds the wave alive.
ARENA_WIDTH == 40
ARENA_HEIGHT == 20

Abs(n) == IF n < 0 THEN -n ELSE n

\* Math.sign
Sign(n) == IF n > 0 THEN 1 ELSE IF n < 0 THEN -1 ELSE 0

\* generateWalls(): the obstacles for the draw followed, blocks of 3 x 2
\* cells at (27, 13) and (30, 12), the other three blocks on top of these
Obstacles ==
  {<<27 + dx, 13 + dy>> : dx \in 0 .. 2, dy \in 0 .. 1}
    \cup {<<30 + dx, 12 + dy>> : dx \in 0 .. 2, dy \in 0 .. 1}

\* isWall(x, y): the border walls and the obstacles
isWall(c) ==
  \/ c[1] \in {0, ARENA_WIDTH - 1} /\ c[2] \in 0 .. ARENA_HEIGHT - 1
  \/ c[2] \in {0, ARENA_HEIGHT - 1} /\ c[1] \in 0 .. ARENA_WIDTH - 1
  \/ c \in Obstacles

\* the enemy spawnEnemy() pushes for the cell c
Enemy(c, isImp) ==
  [x |-> c[1], y |-> c[2], type |-> IF isImp THEN "imp" ELSE "demon",
   health |-> IF isImp THEN 30 ELSE 50, damage |-> IF isImp THEN 10 ELSE 20]

\* the cells the loop of spawnEnemy() can end on, for the player p
CanSpawn(c, p) ==
  /\ c[1] \in 1 .. ARENA_WIDTH - 2
  /\ c[2] \in 1 .. ARENA_HEIGHT - 2
  /\ ~isWall(c)
  /\ ~(Abs(c[1] - p.x) < 5 /\ Abs(c[2] - p.y) < 5)

\* spawnWave() for wave 1, 3 + 1 * 2 enemies; the draws of Math.random
\* followed: the first enemy on the player's row or column, imp or demon,
\* the other four demons on the cell between the two obstacles
spawnWave(p) ==
  {<<Enemy(c, i)>> \o [n \in 1 .. 4 |-> Enemy(<<30, 14>>, FALSE)] :
     c \in {d \in {<<25, 10>>, <<20, 15>>} : CanSpawn(d, p)},
     i \in {b \in BOOLEAN : CanSpawn(<<30, 14>>, p)}}

\* isEnemyAt(x, y, excludeEnemy), the enemy excluded given by its index
isEnemyAt(es, c, i) ==
  \E j \in 1 .. Len(es) : j # i /\ es[j].x = c[1] /\ es[j].y = c[2]

\* one enemy's turn in updateEnemies(); axis: the branch Math.random picks
moveEnemy(es, i, p, axis) ==
  LET e == es[i]
      dx == p.x - e.x
      dy == p.y - e.y
      moveX == Sign(dx)
      moveY == Sign(dy)
  IN  IF dx = 0 /\ dy = 0 THEN e
      ELSE IF axis = "x"
      THEN IF /\ moveX # 0
              /\ ~isWall(<<e.x + moveX, e.y>>)
              /\ ~isEnemyAt(es, <<e.x + moveX, e.y>>, i)
           THEN [e EXCEPT !.x = @ + moveX] ELSE e
      ELSE IF /\ moveY # 0
              /\ ~isWall(<<e.x, e.y + moveY>>)
              /\ ~isEnemyAt(es, <<e.x, e.y + moveY>>, i)
           THEN [e EXCEPT !.y = @ + moveY] ELSE e

\* the enemies from the i-th on take their turns, each seeing the moves
\* before it; S: what the enemies can be after the turns before the i-th
RECURSIVE enemiesFrom(_, _, _)
enemiesFrom(S, i, p) ==
  IF \A es \in S : i > Len(es) THEN S
  ELSE enemiesFrom({[es EXCEPT ![i] = moveEnemy(es, i, p, axis)] :
                      es \in S, axis \in {"x", "y"}},
                   i + 1, p)

\* updateEnemies(): what the enemies can be after it, for every branch
\* Math.random can pick for each enemy
updateEnemies(es, p) == enemiesFrom({es}, 1, p)

\* checkCollisions(), "Push enemy back": e is on the cell of the player p
pushBack(e, p) ==
  LET dx == e.x - p.x
      dy == e.y - p.y
  IN  [e EXCEPT !.x = IF dx # 0 THEN @ + Sign(dx) ELSE @,
                !.y = IF dy # 0 THEN @ + Sign(dy) ELSE @]

OnPlayer(e, p) == e.x = p.x /\ e.y = p.y

RECURSIVE damageFrom(_, _, _)
damageFrom(es, i, p) ==
  IF i > Len(es) THEN 0
  ELSE (IF OnPlayer(es[i], p) THEN es[i].damage ELSE 0)
         + damageFrom(es, i + 1, p)

\* checkCollisions(), the enemy-player part: the arena after it
checkCollisions(d) ==
  [d EXCEPT
     !.player.health = @ - damageFrom(d.enemies, 1, d.player),
     !.enemies = [i \in 1 .. Len(d.enemies) |->
                    IF OnPlayer(d.enemies[i], d.player)
                    THEN pushBack(d.enemies[i], d.player)
                    ELSE d.enemies[i]]]

\* the frame render() draws in the state s
Frame(s) ==
  CASE s = "Paused" -> "paused"
    [] s = "GameOver" -> "gameover"
    [] OTHER -> "arena"

\* handleGameInput(), the movement keys
movePlayer(k, p) ==
  CASE k = "w" /\ p.y > 1 /\ ~isWall(<<p.x, p.y - 1>>) ->
         [p EXCEPT !.y = @ - 1]
    [] k = "s" /\ p.y < ARENA_HEIGHT - 2 /\ ~isWall(<<p.x, p.y + 1>>) ->
         [p EXCEPT !.y = @ + 1]
    [] k = "a" /\ p.x > 1 /\ ~isWall(<<p.x - 1, p.y>>) ->
         [p EXCEPT !.x = @ - 1]
    [] k = "d" /\ p.x < ARENA_WIDTH - 2 /\ ~isWall(<<p.x + 1, p.y>>) ->
         [p EXCEPT !.x = @ + 1]
    [] OTHER -> p

\* keys of the listener: start, pause / resume, restart, movement
DoomKeyNames == {"space", "p", "r", "w", "a", "s", "d"}

\* onStart: the listener and showMenu(); the Terminal is left out
DoomStart ==
  /\ game = "none"
  /\ game' = "doom"
  /\ gamePc' = "started"
  /\ Put(render(Fields))
  /\ doom' = [doom EXCEPT !.screen = "menu"]
  /\ UNCHANGED <<keyName, ticks, keyCount>>

\* the keypress listener of DoomArena for the key k; es the wave that
\* spawnWave() draws when the key starts a new game
DoomKey(k, es) ==
  /\ game = "doom"
  /\ keyCount < DoomKeys
  /\ keyCount' = keyCount + 1
  /\ Put(doomKey(k, Fields))
  /\ IF \/ gameState = "Menu" /\ k = "space"
        \/ gameState = "GameOver" /\ k = "r"
     THEN /\ es \in spawnWave(DoomNew.player)
          /\ doom' = [doom EXCEPT !.player = DoomNew.player, !.enemies = es]
     ELSE /\ es = doom.enemies
          /\ IF gameState = "Playing"
             THEN doom' = [doom EXCEPT !.player = movePlayer(k, @)]
             ELSE UNCHANGED doom
  /\ UNCHANGED <<game, gamePc, keyName, ticks>>

\* what the enemies can be after the enemy step of a tick: as they are
\* when 500 ms have not passed since they moved, updateEnemies() otherwise
EnemySteps == {doom.enemies} \cup updateEnemies(doom.enemies, doom.player)

\* one firing of gameInterval; es: the enemies after the enemy step
DoomTick(es) ==
  /\ game = "doom"
  /\ gameInterval
  /\ IF gameState = "Playing"
     THEN /\ ticks < DoomTicks
          /\ ticks' = ticks + 1
          /\ LET after == checkCollisions([doom EXCEPT !.enemies = es])
             IN  /\ doom' = [after EXCEPT !.screen = Frame(gameState)]
                 /\ Put(gameLoop(IF after.player.health <= 0 THEN "crash"
                                 ELSE "move", Fields))
     ELSE /\ es = doom.enemies
          /\ Put(gameLoop("move", Fields))
          /\ UNCHANGED <<ticks, doom>>
  /\ UNCHANGED <<game, gamePc, keyName, keyCount>>

\* the firings of gameInterval
DoomTicking ==
  \E es \in EnemySteps :
    DoomTick(es) /\ NoTerminal /\ UNCHANGED <<snakeVars, pixel>>

DoomNext ==
  \/ DoomStart /\ NoTerminal /\ UNCHANGED <<snakeVars, pixel>>
  \/ \E k \in DoomKeyNames,
          es \in spawnWave(DoomNew.player) \cup {doom.enemies} :
       DoomKey(k, es) /\ NoTerminal /\ UNCHANGED <<snakeVars, pixel>>
  \/ DoomTicking

DoomSpec == Init /\ [][DoomNext]_vars

\* the interval keeps firing for as long as it is set
DoomLiveSpec == DoomSpec /\ WF_vars(DoomTicking)

\* ---------------------------------------------- PixelQuest, cell by cell
\* The board of PixelQuest (apps/PixelQuest.ts).  The listener and the
\* interval callback are the ones of the games above; here the player, the
\* enemies and the level are kept as well.  The player's y and velocityY
\* are in halves of a cell, an enemy's x and velocityX in tenths.
PIXEL_WIDTH == 60
PIXEL_HEIGHT == 20
GRAVITY == 1
JUMP_FORCE == -6
PLAYER_SPEED == 2

\* the platforms initializeLevel() creates
platforms ==
  <<[x |-> 0, y |-> 18, width |-> 20], [x |-> 25, y |-> 15, width |-> 10],
    [x |-> 40, y |-> 12, width |-> 8], [x |-> 52, y |-> 18, width |-> 8]>>

\* initializeLevel(): the player and the enemies of a level
initializeLevel(px) ==
  [px EXCEPT
     !.player = PixelNew.player,
     !.enemies = <<[x |-> 300, y |-> 14, velocityX |-> 5, health |-> 50],
                   [x |-> 450, y |-> 11, velocityX |-> -3, health |-> 30]>>]

\* handleGameInput(): left, right and jump
movePixel(k, p) ==
  CASE k = "left" ->
         IF p.x > 0 THEN [p EXCEPT !.x = @ - PLAYER_SPEED] ELSE p
    [] k = "right" ->
         IF p.x < PIXEL_WIDTH - 1 THEN [p EXCEPT !.x = @ + PLAYER_SPEED]
         ELSE p
    [] k \in {"space", "up"} ->
         IF ~p.isJumping
         THEN [p EXCEPT !.velocityY = JUMP_FORCE, !.isJumping = TRUE]
         ELSE p
    [] OTHER -> p

\* the player p stands on or falls onto the platform f
Lands(p, f) ==
  /\ p.x >= f.x
  /\ p.x < f.x + f.width
  /\ p.y >= 2 * (f.y - 1)
  /\ p.y <= 2 * (f.y + 1)
  /\ p.velocityY >= 0

\* updateGame(): gravity and the platform collisions
fall(p) ==
  LET q == [p EXCEPT !.velocityY = @ + GRAVITY,
                     !.y = @ + p.velocityY + GRAVITY]
      hit == {i \in 1 .. Len(platforms) : Lands(q, platforms[i])}
  IN  IF hit = {} THEN q
      ELSE LET f == platforms[CHOOSE i \in hit : \A j \in hit : i <= j]
           IN  [q EXCEPT !.y = 2 * (f.y - 1), !.velocityY = 0,
                         !.isJumping = FALSE]

\* updateGame(): the turn of the i-th enemy and of those after it
RECURSIVE pixelEnemiesFrom(_, _)
pixelEnemiesFrom(px, i) ==
  IF i > Len(px.enemies) THEN px
  ELSE LET e == px.enemies[i]
           x1 == e.x + e.velocityX
           v1 == IF x1 <= 0 \/ x1 >= 10 * (PIXEL_WIDTH - 1)
                 THEN -e.velocityX ELSE e.velocityX
           touches == /\ Abs(10 * px.player.x - x1) < 20
                      /\ Abs(px.player.y - 2 * e.y) < 4
           e1 == [e EXCEPT !.velocityX = v1,
                           !.x = IF touches THEN x1 + v1 * 5 ELSE x1]
       IN  pixelEnemiesFrom(
             [px EXCEPT !.enemies[i] = e1,
                        !.player.health = IF touches THEN @ - 10 ELSE @],
             i + 1)

\* updateGame() reaches the win test with the player on the end platform
Wins(p) == p.x >= 52 /\ p.x < 60 /\ ~p.isJumping

\* updateGame() on the board
pixelUpdate(px) ==
  LET moved == pixelEnemiesFrom([px EXCEPT !.player = fall(@)], 1)
  IN  IF Wins(moved.player)
      THEN initializeLevel([moved EXCEPT !.level = @ + 1])
      ELSE moved

\* what updateGame() finds: the level won, the player dead, neither
pixelFound(px) ==
  LET moved == pixelEnemiesFrom([px EXCEPT !.player = fall(@)], 1)
  IN  IF Wins(moved.player) THEN "score"
      ELSE IF moved.player.y > 2 * PIXEL_HEIGHT \/ moved.player.health <= 0
      THEN "crash"
      ELSE "move"

\* keys of the listener: the menu, the moves, the jump, back to the menu
PixelKeyNames == {"left", "right", "up", "space", "escape"}

\* onStart: the listener and showMenu(); the Terminal is left out
PixelStart ==
  /\ game = "none"
  /\ game' = "pixel"
  /\ gamePc' = "started"
  /\ Put(render(Fields))
  /\ UNCHANGED <<pixel, keyName, ticks, keyCount>>

\* the keypress listener of PixelQuest for the key k (a key that ends the
\* run is followed in the runs of the games above)
PixelKey(k) ==
  /\ game = "pixel"
  /\ keyCount < PixelKeys
  /\ keyCount' = keyCount + 1
  /\ ~pixelKey(k, Fields).exits
  /\ Put(pixelKey(k, Fields))
  /\ pixel' =
       CASE gameState = "Menu" /\ k = "space" /\ selectedMenuItem = 0 ->
              initializeLevel([pixel EXCEPT !.level = 1])
         [] gameState = "Playing" ->
              [pixel EXCEPT !.player = movePixel(k, @)]
         [] OTHER -> pixel
  /\ UNCHANGED <<game, gamePc, keyName, ticks>>

\* one firing of gameInterval: updateGame() and renderGame()
PixelTick ==
  /\ game = "pixel"
  /\ gameInterval
  /\ ticks < PixelTicks
  /\ ticks' = ticks + 1
  /\ Put(gameLoop(pixelFound(pixel), Fields))
  /\ pixel' = pixelUpdate(pixel)
  /\ UNCHANGED <<game, gamePc, keyName, keyCount>>

PixelNext ==
  \/ PixelStart /\ NoTerminal /\ UNCHANGED <<snakeVars, doom>>
  \/ \E k \in PixelKeyNames :
       PixelKey(k) /\ NoTerminal /\ UNCHANGED <<snakeVars, doom>>
  \/ PixelTick /\ NoTerminal /\ UNCHANGED <<snakeVars, doom>>

PixelSpec == Init /\ [][PixelNext]_vars

\* ================================================================ claims
Settled == runPc \in {"resolved", "rejected"}

PromptsShown == Cardinality({i \in DOMAIN out : out[i] = PromptText})

\* C1: onExit is invoked exactly once per run: not before the run reaches
\* its teardown, once when it does, and never a second time; this holds when
\* exit() came after onStart, during onStart, and when onStart raised.
C1_OnExitExactlyOnce ==
  /\ exitHookCalls <= 1
  /\ runPc \in {"idle", "onStart", "polling"} => exitHookCalls = 0
  /\ runPc \in {"onExit", "resolved", "rejected"} => exitHookCalls = 1

C1_Witness ==
  /\ Settled
  /\ startFailed
  /\ exitCalled
  /\ runOnExit = "stopped"
  /\ exitHookCalls = 1

\* C2 (as claimed): whenever run has settled, also after onStart or onExit
\* raised, rl.close() has been called.
C2_ChannelClosedWhenSettled == Settled => rlClosed

\* C3 (as claimed): after onStart raised, the failure message is displayed,
\* no prompt is shown, no line handler is registered, onInput is never
\* invoked, onExit is invoked, and run does not reject.
C3_StartFailureResolves ==
  startFailed =>
    /\ \E i \in DOMAIN out : out[i] = StartFailedMsg
    /\ PromptsShown = 0
    /\ lineListeners = 0
    /\ inFlight = 0 /\ lastInput = <<"none">>
    /\ exitHookCalls = 1
    /\ runPc # "rejected"

\* C3 (amended): as above, and run resolves unless onExit itself raises;
\* it rejects only with the error of onExit.
C3_StartFailureTeardown ==
  startFailed =>
    /\ \E i \in DOMAIN out : out[i] = StartFailedMsg
    /\ PromptsShown = 0
    /\ lineListeners = 0
    /\ inFlight = 0 /\ lastInput = <<"none">>
    /\ exitHookCalls = 1
    /\ runPc \in {"onExit", "resolved", "rejected"}
    /\ runPc = "rejected" <=> exitHookRaised

C3_Witness ==
  /\ startFailed
  /\ runPc = "resolved"
  /\ ~exitHookRaised

\* C4 (as claimed): isRunning is false when onExit is invoked and when run
\* resolves, also after a start failure.
C4_IdleAfterRun ==
  /\ runOnExit # "running"
  /\ runPc = "resolved" => ~isRunning

\* C5: once exit() has been called during a run, run eventually resolves
\* (given that the interval keeps firing and the hooks settle; a raising
\* onExit makes it reject instead), and the checkExit interval is cleared by
\* the firing that sees isRunning = false: it is active only while run waits.
C5_ExitLeadsToResolve ==
  /\ [](pollTimer => runPc = "polling")
  /\ [][(pollTimer /\ ~pollTimer') => ~isRunning]_vars
  /\ exitCalled ~> (runPc = "resolved" \/ exitHookRaised)

C5_Witness ==
  /\ runPc = "resolved"
  /\ exitCalled
  /\ linesSeen > 0
  /\ ~pollTimer

ErrorsShown(o) == Cardinality({i \in DOMAIN o : o[i] = InputErrorMsg})

\* a line event that the line handler forwards to onInput, trimmed
Forwarded(raw) ==
  /\ SubmitLine(raw)
  /\ Plain
  /\ inFlight' = inFlight + 1
  /\ lastInput' = trim(raw)

\* C6: an error raised by onInput is caught: the step that displays
\* "Error: <message>" also shows the prompt and changes neither isRunning nor
\* the position of run nor the line handler nor the channel; and after such
\* an error every line submitted while isRunning is true is forwarded.
C6_InputErrorKeepsRunning ==
  /\ [][ErrorsShown(out') > ErrorsShown(out) =>
          /\ out' = out \o <<InputErrorMsg, PromptText>>
          /\ isRunning' = isRunning
          /\ runPc' = runPc
          /\ lineListeners' = lineListeners
          /\ rlClosed' = rlClosed]_vars
  /\ [](ErrorsShown(out) > 0 => lineListeners = 1)
  /\ []((/\ ErrorsShown(out) > 0
         /\ isRunning
         /\ ~dispatch.on
         /\ linesSeen < MaxLines)
        => \A raw \in RawLines : ENABLED Forwarded(raw))

C6_Witness ==
  /\ ErrorsShown(out) = 1
  /\ linesSeen = 1
  /\ inFlight = 0
  /\ isRunning
  /\ runPc = "polling"

\* C7: within a run, clear, banner and separator are the first three writes
\* and precede onStart; an onInput call begins only after onStart returned
\* and before any exit(); onExit begins only once onStart has finished; the
\* channel is closed only after onExit has returned.
C7_LifecycleOrder ==
  /\ [](runPc = "idle" => out = <<>>)
  /\ [](runPc # "idle" =>
          /\ Len(out) >= 3
          /\ SubSeq(out, 1, 3) = <<ANSI_CONTROL.clearScreen, Banner, Separator>>)
  /\ [][inFlight' > inFlight =>
          runPc = "polling" /\ ~startFailed /\ ~exitCalled]_vars
  /\ [][exitHookCalls' > exitHookCalls =>
          runPc \in {"onStart", "polling"} /\ runPc' = "onExit"]_vars
  /\ [](rlClosed => runPc = "resolved" /\ exitHookCalls = 1)

C7_Witness ==
  /\ runPc = "resolved"
  /\ rlClosed
  /\ exitCalled
  /\ linesSeen > 0
  /\ lastInput = <<"a">>

\* C8 (as claimed): when exit() returns, isRunning is false and raw mode is
\* disabled (flag, stream mode, stdin handler); and whenever the run loop
\* sees isRunning = false, raw mode is disabled.
C8_ExitDisablesRawMode ==
  /\ exited => ~isRunning /\ ~isRawMode /\ ~stdinRaw /\ osHandlers = 0
  /\ rawOnObserve # "raw"

\* C8 (amended): when exit() returns, isRunning is false and raw mode is
\* disabled; raw mode then stays disabled until enableRawMode() switches the
\* stream to raw again (never by exit() itself), so the run loop sees
\* isRunning = false with raw mode enabled only after such a later call.
C8_ExitDisablesUntilReenabled ==
  /\ [](exited => ~isRunning /\ ~isRawMode /\ ~stdinRaw /\ osHandlers = 0)
  /\ [][(~isRawMode /\ isRawMode') => (touched' /\ stdinRaw' /\ ~exited')]_vars
  /\ [][(rawOnObserve # "raw" /\ rawOnObserve' = "raw") =>
          (isRawMode /\ ~exited /\ exitCalled)]_vars

C8_Witness ==
  /\ exited
  /\ touched
  /\ runPc = "polling"
  /\ keypressListeners # <<>>

\* C9 (as claimed): keypressListeners is non-empty only while raw mode is
\* enabled.
C9_ListenersOnlyInRawMode == keypressListeners # <<>> => isRawMode

\* C10: on an interactive terminal exactly one stdin keypress handler is
\* registered while raw mode is enabled and none while it is disabled, and
\* the stream mode follows the flag; a call that finds the mode already as
\* requested changes nothing: the stream mode is set only by a step that
\* switches isRawMode, and handler count and stream mode change only then.
C10_RawModeIdempotent ==
  /\ [](/\ osHandlers = (IF isRawMode THEN 1 ELSE 0)
        /\ stdinRaw = isRawMode)
  /\ [][touched' => isRawMode' # isRawMode]_vars
  /\ [][isRawMode' = isRawMode => UNCHANGED <<stdinRaw, osHandlers>>]_vars

C10_Witness ==
  /\ isTTY
  /\ isRawMode
  /\ osHandlers = 1
  /\ stdinRaw
  /\ ~touched
  /\ exitCalled

\* C11: on an input stream that is not a terminal, a call of enableRawMode()
\* changes nothing (raw mode stays disabled, the stream mode is not switched,
\* no keypress handler is attached to stdin), every readKey() rejects and
\* registers no waiter, and every line submitted while isRunning is true is
\* still forwarded to onInput.
C11_NoTtyRawModeNoOp ==
  /\ [](~isRawMode /\ ~stdinRaw /\ osHandlers = 0 /\ ~touched)
  /\ [][(rawRefused' /\ ~rawRefused) =>
          UNCHANGED <<termVars, isTTY, runVars, exitCalled, keyVars,
                      keyCount, dispatch>>]_vars
  /\ [](readOutcome # "pending" /\ nextWaiter = 0)
  /\ []((rawRefused /\ isRunning /\ runPc = "polling"
          /\ linesSeen < MaxLines)
        => \A raw \in RawLines : ENABLED Forwarded(raw))

C11_Witness ==
  /\ ~isTTY
  /\ rawRefused
  /\ readOutcome = ReadKeyError
  /\ linesSeen > 0
  /\ inFlight > 0
  /\ lastInput = <<"a">>

\* C12: once disableRawMode() has disabled raw mode, no listener that was in
\* keypressListeners at that moment (registered with onKeypress or by
\* readKey) is invoked for a later keypress, also after raw mode is enabled
\* again: the listeners invoked are never among the staleCount leading ones.
C12_DisableRemovesListeners ==
  [][Invoking => dispatch.idx > staleCount]_vars

\* the step took one entry of a callback out of keypressListeners
Unsubscribed ==
  /\ Len(keypressListeners') = Len(keypressListeners) - 1
  /\ ~IsWaiter(keypressListeners[
         RemovedIndex(keypressListeners, keypressListeners')])

\* C13: invoking the unsubscribe function of a registration of cb removes
\* that registration and nothing else: whichever registration of cb the
\* function belongs to, the list afterwards is the list before without that
\* registration's entry, the other entries in their order.
C13_UnsubscribeRemovesOnlyThat ==
  [][Unsubscribed =>
       LET cb == keypressListeners[
                   RemovedIndex(keypressListeners, keypressListeners')]
       IN  \A i \in DOMAIN keypressListeners :
             keypressListeners[i] = cb =>
               keypressListeners' = Splice(keypressListeners, i)]_vars

\* C14: invoking one unsubscribe function twice leaves keypressListeners as
\* invoking it once does, for every list of registrations the program can
\* build and every callback.
C14_UnsubscribeIdempotent ==
  \A cb \in Callbacks :
    RemoveListener(RemoveListener(keypressListeners, cb), cb)
      = RemoveListener(keypressListeners, cb)

\* the walk of handleKeypress is past the end of keypressListeners
WalkDone == dispatch.on /\ dispatch.idx > Len(keypressListeners)

\* C15: when the dispatch of a keypress event ends, the listeners invoked
\* for it begin with the listeners that were registered when it arrived,
\* each once and in registration order, whatever the listeners removed
\* while the event was dispatched.
C15_DeliveredToEveryListener ==
  WalkDone =>
    /\ Len(delivered) >= Len(snapshot)
    /\ SubSeq(delivered, 1, Len(snapshot)) = snapshot

\* C16: a readKey() call made while isRawMode is false rejects with the
\* error "Raw mode must be enabled to read individual keys", and the step
\* changes neither the listener list nor the waiters nor the raw-mode state.
C16_ReadKeyRejectsWhenCooked ==
  [][(readOutcome' # "none" /\ ~isRawMode) =>
       /\ readOutcome' = ReadKeyError
       /\ UNCHANGED <<termVars, isTTY, runVars, exitCalled, keyVars,
                      keyCount>>]_vars

C16_Witness ==
  /\ readOutcome = ReadKeyError
  /\ isTTY
  /\ ~isRawMode
  /\ staleCount > 0
  /\ nextWaiter > 0

\* C17: a waiter of readKey() resolves once, with the first keypress event
\* that arrives after its call (the event after the regAt[w].at events that
\* had arrived, the one in dispatch included), and once it has resolved its
\* handler is not in keypressListeners.
C17_ReadKeyNextEvent ==
  /\ [](\A w \in Waiters :
          resolved[w] # 0 =>
            /\ resolved[w] = regAt[w].at + 1
            /\ \A i \in DOMAIN keypressListeners :
                 keypressListeners[i] # WaiterId(w))
  /\ [][\A w \in Waiters :
          resolved[w] # 0 => resolved'[w] = resolved[w]]_vars

\* C18: when all the readKey() calls made so far (two or more) were made
\* outside a dispatch with no keypress between them, so that they were
\* pending at once, the k-th of them resolves with the k-th keypress event
\* after them.
C18_WaitersFifo ==
  (/\ nextWaiter >= 2
   /\ \A w \in 1 .. nextWaiter :
        regAt[w].at = regAt[1].at /\ ~regAt[w].inDispatch)
  => \A k \in 1 .. nextWaiter :
       resolved[k] # 0 => resolved[k] = regAt[1].at + k

\* C19: no two waiters of readKey() resolve with the same keypress event.
C19_OneWaiterPerEvent ==
  \A w1, w2 \in Waiters :
    (w1 # w2 /\ resolved[w1] # 0) => resolved[w1] # resolved[w2]

\* C20: once exit() has been called during a run, no step of the line
\* handler writes the prompt: the prompt is written only while isRunning is
\* true.
C20_NoPromptAfterExit ==
  [][PromptsShown' > PromptsShown => (isRunning /\ ~exitCalled)]_vars

\* C21: once exit() has been called during a run, no keypress listener is
\* invoked any more, the later listeners of a dispatch in progress included.
C21_NoListenerAfterExit ==
  [][Invoking => ~exitCalled]_vars

\* the step is a line event that the line handler forwarded to the selector
LineToSelector == linesSeen' > linesSeen

\* the selector has no child and waits for a menu choice
AwaitingChoice == isWaitingForChoice /\ subApp = 0

\* the decimal numeral of an index of apps
Numeral(a) == <<DigitChars[a + 1]>>

Written(msg) == \E i \in DOMAIN out : out[i] = msg

\* C22: while the selector awaits a menu choice, the input "q" or "Q" calls
\* exit() on the runtime and activates no child: no onStart of a child is
\* invoked, no child is made active, and none is afterwards.
C22_QuitFromMenu ==
  /\ [][(LineToSelector /\ AwaitingChoice
         /\ lastInput' \in {<<"q">>, <<"Q">>})
        => /\ exited' /\ ~isRunning' /\ exitCalled'
           /\ subApp' = 0 /\ ~isInSubApp'
           /\ UNCHANGED <<childPc, childStarts>>]_vars
  /\ [][(subApp = 0 /\ exitCalled) => (subApp' = 0 /\ ~isInSubApp')]_vars

C22_Witness ==
  /\ exited
  /\ lastInput = <<"Q">>
  /\ linesSeen = 2
  /\ subApp = 0
  /\ ~isRunning

\* C23: while the selector awaits a menu choice among NumApps apps, the
\* numeral of an index i in 1..NumApps makes app i the active child and
\* invokes its onStart; the onStart of app i is invoked once in all and the
\* onStart of no other app is ever invoked.
C23_ValidIndexActivates ==
  /\ [][\A a \in Apps :
          (LineToSelector /\ AwaitingChoice /\ lastInput' = Numeral(a))
          => /\ subApp' = a /\ isInSubApp'
             /\ childStarts' = [childStarts EXCEPT ![a] = 1]
             /\ childPc'[a] = "starting"]_vars
  /\ [](\A a \in Apps : childStarts[a] = IF a = subApp THEN 1 ELSE 0)

C23_Witness ==
  /\ subApp = NumApps
  /\ lastInput = Numeral(NumApps)
  /\ childStarts[NumApps] = 1
  /\ childPc[NumApps] = "active"
  /\ Written(InvalidChoiceMsg)

\* C24: while the selector awaits a menu choice, an input that is neither
\* "q"/"Q" nor the numeral of an index in 1..NumApps writes the
\* invalid-choice message and the choice prompt and changes nothing else:
\* no child, no onStart, still awaiting a choice, the runtime still running.
C24_InvalidChoiceReprompts ==
  [][(/\ LineToSelector
      /\ AwaitingChoice
      /\ lastInput' \notin {<<"q">>, <<"Q">>}
      /\ \A a \in Apps : lastInput' # Numeral(a))
     => /\ out' = out \o <<InvalidChoiceMsg, ChoicePrompt>>
        /\ isWaitingForChoice'
        /\ UNCHANGED <<isRunning, isInSubApp, subApp, childVars>>]_vars

\* C25: once the selector has an active child, the child never changes and
\* is never cleared, and every line the line handler forwards is passed on
\* as it is to that child, the selector writing nothing and starting nothing.
C25_ForwardsToActiveChild ==
  /\ [][subApp # 0 => (subApp' = subApp /\ isInSubApp')]_vars
  /\ [][(subApp # 0 /\ LineToSelector)
        => /\ childInput' = [to |-> subApp, input |-> lastInput',
                             count |-> childInput.count + 1]
           /\ UNCHANGED <<out, isRunning, isWaitingForChoice, childPc,
                          childStarts, childExits>>]_vars
  /\ [](childInput.count > 0 => childInput.to = subApp)

C25_Witness ==
  /\ subApp = 1
  /\ childInput = [to |-> 1, input |-> <<"Q">>, count |-> 2]

\* C26: the selector's onExit invokes the onExit of the active child, once,
\* and writes the farewell message only after it has returned; without an
\* active child it writes the farewell message and invokes no onExit.
C26_ChildExitsBeforeParent ==
  /\ [](Written(FarewellMsg) =>
          /\ selPc = "exited"
          /\ subApp # 0 => childExits[subApp] = 1)
  /\ [](\A a \in Apps :
          childExits[a] = IF a = subApp /\ selPc \in {"childExit", "exited",
                                                     "exitRaised"}
                          THEN 1 ELSE 0)
  /\ [](runPc = "resolved" => Written(FarewellMsg))
  /\ [](Cardinality({i \in DOMAIN out : out[i] = FarewellMsg}) <= 1)

C26_Witness ==
  /\ runPc = "resolved"
  /\ subApp = 1
  /\ childExits[1] = 1
  /\ childInput.count > 0
  /\ Written(FarewellMsg)

\* C27: an onInput call is passed to a child only after the child's onStart
\* has settled and before its onExit is invoked.
C27_ChildInputOnlyWhileActive ==
  [][childInput'.count > childInput.count =>
       /\ childPc[childInput'.to] \in {"active", "failed"}
       /\ childExits[childInput'.to] = 0]_vars

IsOver ==
  IF game \in {"snake", "flappy"} THEN gameOver ELSE gameState = "GameOver"

\* the step is the game's listener handling the key of the current event
HandlesKey == AtListener /\ dispatch' # dispatch

\* C29: in SnakeGame, FlappyBird and DoomArena game-over is a terminal
\* sub-state: while the game is over, a firing of a timer and every key
\* other than the restart key r and the quit keys q and ctrl-c leave the
\* whole game state (positions, score, pause flag, game-over flag) as it is.
C29_GameOverIsTerminal ==
  [][(/\ game \in {"snake", "flappy", "doom"}
      /\ IsOver
      /\ \/ ticks' # ticks
         \/ HandlesKey /\ keyName \notin {"r", "q", "ctrl-c"})
     => UNCHANGED <<world, score, control, pipes, isPaused, gameOver,
                    gameState>>]_vars

\* SnakeGame after a collision at the first firing of its timer: the timer
\* has fired once more and the listener has handled the key p, the only key
\* pressed, and the game is not paused
C29_Witness ==
  /\ game = "snake"
  /\ gameOver
  /\ ticks = 2
  /\ world = 0
  /\ keyCount = 1
  /\ keyName = "p"
  /\ dispatch.on
  /\ dispatch.idx > 1
  /\ ~isPaused

\* C30: after a game's onExit has completed none of its recurring timers is
\* active and no update or render step runs, whatever start, pause, restart
\* and quit keys came before the exit (SnakeGame, FlappyBird with its
\* pipe-spawn timer, DoomArena, PixelQuest).
C30_NoTimerAfterExit ==
  (game \in Games /\ gamePc = "exited")
    => ~gameInterval /\ ~pipeSpawnTimer /\ ~stepped

\* FlappyBird has exited after a quit key followed by a restart: the
\* restart had started both timers again
C30_Witness ==
  /\ game = "flappy"
  /\ gamePc = "exited"
  /\ ~gameOver
  /\ pipes > 0
  /\ keyCount >= 2

\* the step is a firing of SnakeGame's timer that runs updateGame()
SnakeUpdates ==
  game = "snake" /\ ticks' > ticks /\ ~isPaused /\ ~gameOver

\* C31: one SnakeGame tick moves the head one cell in the pending direction
\* and decides by exact cell equality: a new head cell outside the 30x15
\* board or equal to a current segment sets gameOver and leaves snake, score
\* and food as they are; a new head cell equal to the food cell grows the
\* snake by one segment, adds 10 to the score and places new food; otherwise
\* the head is added and the tail removed.
C31_TickByCells ==
  [][SnakeUpdates =>
      LET hx == snake[1][1] + (IF nextDirection = "RIGHT" THEN 1
                               ELSE IF nextDirection = "LEFT" THEN -1 ELSE 0)
          hy == snake[1][2] + (IF nextDirection = "DOWN" THEN 1
                               ELSE IF nextDirection = "UP" THEN -1 ELSE 0)
          outside == hx \notin 0 .. 29 \/ hy \notin 0 .. 14
          onSegment == \E i \in 1 .. Len(snake) : snake[i] = <<hx, hy>>
      IN  IF outside \/ onSegment
          THEN /\ gameOver'
               /\ snake' = snake
               /\ score' = score
               /\ food' = food
          ELSE IF <<hx, hy>> = food
          THEN /\ ~gameOver'
               /\ snake' = <<<<hx, hy>>>> \o snake
               /\ score' = score + 10
               /\ food' # food
               /\ \A i \in 1 .. Len(snake') : snake'[i] # food'
          ELSE /\ ~gameOver'
               /\ Len(snake') = Len(snake)
               /\ snake'[1] = <<hx, hy>>
               /\ \A i \in 2 .. Len(snake) : snake'[i] = snake[i - 1]
               /\ score' = score
               /\ food' = food]_vars

\* the snake has eaten twice and then run into its own body
C31_Witness ==
  /\ game = "snake"
  /\ gameOver
  /\ Len(snake) = 5
  /\ score = 20
  /\ ~OffBoard(MoveHead(snake[1], direction))
  /\ OnSnake(MoveHead(snake[1], direction), snake)

\* C36: in SnakeGame the snake never reverses onto itself: whatever
\* direction keys come between two ticks, the direction applied at a tick is
\* never the opposite of the direction applied at the tick before it (for
\* the first tick of a game: of the direction the new snake is laid out in).
C36_NeverReverses ==
  [][SnakeUpdates =>
      /\ direction' = nextDirection
      /\ ~(direction = "UP" /\ direction' = "DOWN")
      /\ ~(direction = "DOWN" /\ direction' = "UP")
      /\ ~(direction = "LEFT" /\ direction' = "RIGHT")
      /\ ~(direction = "RIGHT" /\ direction' = "LEFT")]_vars

\* two keys came before the first tick, which then moved the head down
C36_Witness ==
  /\ game = "snake"
  /\ ticks = 1
  /\ keyCount = 2
  /\ direction = "DOWN"
  /\ snake[1] = <<15, 8>>
  /\ ~gameOver

\* C37: in every SnakeGame state after any ticks, direction keys, pauses
\* and restarts the snake has at least 3 segments, all inside the 30x15
\* board and no two on the same cell, the food cell is inside the board and
\* is not a snake cell, and score = 10 * (snake length - 3).
C37_SnakeWellFormed ==
  game = "snake" =>
    /\ Len(snake) >= 3
    /\ \A i \in 1 .. Len(snake) :
         snake[i][1] \in 0 .. 29 /\ snake[i][2] \in 0 .. 14
    /\ \A i, j \in 1 .. Len(snake) : i # j => snake[i] # snake[j]
    /\ food[1] \in 0 .. 29
    /\ food[2] \in 0 .. 14
    /\ \A i \in 1 .. Len(snake) : snake[i] # food
    /\ score = 10 * (Len(snake) - 3)

\* the snake has eaten twice, turned and is paused
C37_Witness ==
  /\ game = "snake"
  /\ Len(snake) = 5
  /\ score = 20
  /\ direction = "UP"
  /\ isPaused
  /\ ~gameOver

\* C38: in each game (SnakeGame, FlappyBird, DoomArena, PixelQuest) at most
\* one game-loop timer is active at any time, after any sequence of start,
\* restart, pause, menu and quit keys.
C38_OneLoopTimer ==
  /\ timers \in {0, 1}
  /\ gameInterval <=> timers = 1

\* DoomArena was restarted with r after a game over, its interval still set
C38_Witness ==
  /\ game = "doom"
  /\ gameState = "Playing"
  /\ timers = 1
  /\ ticks >= 1
  /\ world = 0
  /\ keyCount >= 2
  /\ ~dispatch.on

\* the step is a firing of DoomArena's timer that runs the collision step
DoomCollides ==
  game = "doom" /\ gameState = "Playing" /\ ticks' > ticks

\* C32: in DoomArena, after the enemy-player collision step of a tick, an
\* enemy that was on the player's cell has been pushed back off it: no
\* enemy is on the player's cell when the tick ends.
C32_EnemyPushedOff ==
  [][DoomCollides =>
      \A i \in 1 .. Len(doom'.enemies) :
        ~(/\ doom'.enemies[i].x = doom'.player.x
          /\ doom'.enemies[i].y = doom'.player.y)]_vars

\* C40: in DoomArena, once the player's health has reached 0 or less the
\* state is GameOver and the game-over screen is eventually rendered, and
\* once 'p' has paused the game the PAUSED screen is eventually rendered
\* (unless a key has the game leave that state first).
C40_ScreensRendered ==
  /\ (game = "doom" /\ doom.player.health <= 0)
       ~> (gameState = "GameOver")
  /\ (game = "doom" /\ gameState = "GameOver")
       ~> (doom.screen = "gameover" \/ gameState # "GameOver")
  /\ (game = "doom" /\ gameState = "Paused")
       ~> (doom.screen = "paused" \/ gameState # "Paused")

\* C39: in PixelQuest the player's x coordinate stays within the board
\* columns 0..59 after any sequence of left and right keys while playing.
C39_PlayerOnBoard ==
  game = "pixel" => pixel.player.x \in 0 .. 59

\* the onStart of the child a raises in this step
ChildFails(a) == childPc[a] = "starting" /\ childPc'[a] = "failed"

\* C33: if the onStart of a child selected in the AppSelector raises, the
\* runtime writes 'Error: <message>' as for an input error and keeps
\* running, and the selector is left with that child marked active: it does
\* not return to awaiting a menu choice, every later line is forwarded to
\* that child's onInput, and the child's onExit is invoked at teardown.
C33_FailedChildStaysActive ==
  [][/\ \A a \in Apps :
          ChildFails(a) =>
            /\ Len(out') = Len(out) + 2
            /\ out'[Len(out) + 1] = InputErrorMsg
            /\ isRunning' = isRunning
            /\ runPc' = runPc
            /\ isInSubApp' /\ subApp' = a /\ ~isWaitingForChoice'
     /\ \A a \in Apps :
          childPc[a] = "failed" =>
            /\ isInSubApp' /\ subApp' = a /\ ~isWaitingForChoice'
            /\ childPc'[a] = "failed"
            /\ linesSeen' = linesSeen + 1 =>
                 childInput' = [to |-> a, input |-> lastInput',
                                count |-> childInput.count + 1]
            /\ (selPc \in {"new", "started", "forwarded"} /\ selPc' # selPc) =>
                 /\ runPc = "onExit"
                 /\ childExits'[a] = childExits[a] + 1]_vars

\* the child's onStart raised and the error was written, the line after the
\* choice went to the child's onInput, and the child's onExit was called
\* when the run ended
C33_Witness ==
  /\ childPc[1] = "failed"
  /\ childStarts[1] = 1
  /\ linesSeen = 2
  /\ childInput = [to |-> 1, input |-> <<"x">>, count |-> 1]
  /\ inFlight = 0
  /\ Len(out) >= 2
  /\ out[Len(out) - 2] = InputErrorMsg
  /\ childExits[1] = 1
  /\ runPc = "resolved"

\* the readKey() call w is pending: its handler is in the listener list
Pending(w) ==
  IndexOf(keypressListeners, WaiterId(w)) > 0 /\ resolved[w] = 0

\* the readKey() call w was pending when raw mode was last disabled
PendingAtDisable(w) ==
  Pending(w) /\ IndexOf(keypressListeners, WaiterId(w)) <= staleCount

\* the step disables raw mode (disableRawMode or exit)
Disables == isRawMode /\ ~isRawMode'

C35_LinesNotSerialized ==
  /\ (/\ isRunning /\ lineListeners > 0 /\ ~rlClosed /\ ~dispatch.on
      /\ linesSeen < MaxLines)
       => \A raw \in RawLines :
            ENABLED (/\ SubmitLine(raw) /\ Plain /\ Frozen /\ NoApps
                     /\ inFlight' = inFlight + lineListeners
                     /\ lastInput' = trim(raw))
  /\ (inFlight > 0 /\ ~dispatch.on)
       => ENABLED (/\ OnInputReturn /\ Plain /\ Frozen /\ NoApps
                   /\ inFlight' = inFlight - 1)

\* two onInput invocations are in flight together, exit() has been called
\* and onExit has begun
C35_Witness ==
  /\ inFlight = 2
  /\ linesSeen = 2
  /\ lineListeners = 1
  /\ exitCalled
  /\ ~isRunning
  /\ runPc = "onExit"
  /\ ~dispatch.on
====
